---- MODULE Spec2Model ----
(***************************************************************************)
(* Model of go-ip-country-resolver: the range codec, the dual-index store  *)
(* (textual bucket ip_ranges, numeric bucket ip_ranges_numeric) and the    *)
(* resolution engine with its reset-on-full cache.                         *)
(*                                                                         *)
(* Scaling.  A uint32 is four bytes of eight bits; here a word is four     *)
(* bytes of ByteBits bits, so WordBits = 4 * ByteBits plays the part of 32 *)
(* and every word operation is taken modulo 2^WordBits.                    *)
(*                                                                         *)
(* Strings.  A Go string is modelled as a sequence of lexical tokens, each *)
(* a record [t, v]: a dotted IPv4 literal ("ip4", value), an IPv4-mapped   *)
(* IPv6 literal ("ip4in6", value), an IPv6 literal ("ip6"), a decimal      *)
(* number ("num", value), a word of letters ("word"), and the single       *)
(* characters " ", "#", "-", "/".  strings.Split, strings.Contains,        *)
(* strings.TrimSpace, net.ParseIP and net.ParseCIDR act on these tokens.   *)
(***************************************************************************)
EXTENDS Integers, Sequences, FiniteSets, TLC

\* ------------------------------------------------------------------ bounds
ByteBits == 1
MaxWrites == 2
MaxCacheSize == 2
\* batchSize of importZoneFile (1000 in the source), scaled.
batchSize == 2

BytesPerWord == 4
WordBits == BytesPerWord * ByteBits
ByteBase == 2 ^ ByteBits
WordMod == 2 ^ WordBits
MaxWord == WordMod - 1

\* ------------------------------------------------------------------ tokens
Ip4(a) == [t |-> "ip4", v |-> a]
Ip4in6(a) == [t |-> "ip4in6", v |-> a]
Ip6 == [t |-> "ip6", v |-> 0]
Num(n) == [t |-> "num", v |-> n]
Word == [t |-> "word", v |-> 0]
Sp == [t |-> "sp", v |-> 0]
Hash == [t |-> "hash", v |-> 0]
Dash == [t |-> "dash", v |-> 0]
Slash == [t |-> "slash", v |-> 0]

\* Rank of the first byte of a token in ASCII order:
\* ' ' < '#' < '-' < '/' < digits < ':' < letters.
TokenRank(tok) ==
    CASE tok.t = "sp" -> 0
      [] tok.t = "hash" -> 1
      [] tok.t = "dash" -> 2
      [] tok.t = "slash" -> 3
      [] tok.t = "ip4" -> 4
      [] tok.t = "num" -> 5
      [] tok.t = "ip4in6" -> 6
      [] tok.t = "ip6" -> 7
      [] OTHER -> 8

TokenLess(x, y) ==
    \/ TokenRank(x) < TokenRank(y)
    \/ TokenRank(x) = TokenRank(y) /\ x.v < y.v

\* bytes.Compare on two keys of a bucket (here: on two token strings).
RECURSIVE TextLess(_, _)
TextLess(a, b) ==
    IF a = <<>> THEN b # <<>>
    ELSE IF b = <<>> THEN FALSE
    ELSE IF Head(a) = Head(b) THEN TextLess(Tail(a), Tail(b))
    ELSE TokenLess(Head(a), Head(b))

\* ----------------------------------------------------------- Go strings
StrContains(s, tok) == \E i \in 1..Len(s) : s[i] = tok

\* strings.Split(s, sep) for a one-character separator.
RECURSIVE StrSplit(_, _)
StrSplit(s, sep) ==
    IF ~StrContains(s, sep) THEN <<s>>
    ELSE LET i == CHOOSE j \in 1..Len(s) :
                      s[j] = sep /\ \A k \in 1..(j - 1) : s[k] # sep
         IN  <<SubSeq(s, 1, i - 1)>> \o StrSplit(SubSeq(s, i + 1, Len(s)), sep)

RECURSIVE TrimLeft(_)
TrimLeft(s) == IF s # <<>> /\ Head(s) = Sp THEN TrimLeft(Tail(s)) ELSE s

RECURSIVE TrimRight(_)
TrimRight(s) ==
    IF s # <<>> /\ s[Len(s)] = Sp THEN TrimRight(SubSeq(s, 1, Len(s) - 1)) ELSE s

TrimSpace(s) == TrimRight(TrimLeft(s))

\* ------------------------------------------------------------ package net
NoIP == [fam |-> "nil", v |-> 0]

\* net.ParseIP: the whole string must be one address literal.
ParseIP(s) ==
    IF Len(s) = 1 /\ s[1].t = "ip4" THEN [fam |-> "v4", v |-> s[1].v]
    ELSE IF Len(s) = 1 /\ s[1].t = "ip4in6" THEN [fam |-> "v4in6", v |-> s[1].v]
    ELSE IF Len(s) = 1 /\ s[1].t = "ip6" THEN [fam |-> "v6", v |-> 0]
    ELSE NoIP

\* net.IP.To4: the 4-byte form of an IPv4 or IPv4-mapped address, else nil.
To4(ip) ==
    IF ip.fam \in {"v4", "v4in6"} THEN [fam |-> "v4", v |-> ip.v] ELSE NoIP

\* Address width in bits (netip.Addr.BitLen): 32 and 128, scaled.
BitLen(ip) == IF ip.fam = "v4" THEN WordBits ELSE 4 * WordBits

\* v with its low n bits cleared (IP.Mask with a prefix mask).
ClearLow(v, n) == IF n >= WordBits THEN 0 ELSE v - (v % (2 ^ n))

NoNet == [ok |-> FALSE, fam |-> "nil", ip |-> 0, ones |-> 0]

\* net.ParseCIDR: "address/number" with number <= BitLen(address); the
\* returned network holds the masked address and the prefix length.  An
\* IPv4-mapped address has 128 bits; its network is still an IPv4 network
\* when the mask keeps the whole ::ffff: prefix (96 bits, scaled).
ParseCIDR(s) ==
    IF Len(s) = 3 /\ s[2] = Slash /\ s[3].t = "num" /\ ParseIP(<<s[1]>>) # NoIP
    THEN LET ip == ParseIP(<<s[1]>>)
             n == s[3].v
         IN  IF n > BitLen(ip) THEN NoNet
             ELSE IF ip.fam = "v4"
                  THEN [ok |-> TRUE, fam |-> "v4",
                        ip |-> ClearLow(ip.v, WordBits - n), ones |-> n]
             ELSE IF ip.fam = "v4in6" /\ n >= 3 * WordBits
                  THEN [ok |-> TRUE, fam |-> "v4in6",
                        ip |-> ClearLow(ip.v, 4 * WordBits - n), ones |-> n]
             ELSE [ok |-> TRUE, fam |-> "v6", ip |-> 0, ones |-> n]
    ELSE NoNet

\* net.IPNet.Contains: same address length and equal under the mask.
NetContains(net, ip) ==
    LET x == To4(ip)
        hostBits == IF net.fam = "v4" THEN WordBits - net.ones
                    ELSE 4 * WordBits - net.ones
    IN  /\ net.fam \in {"v4", "v4in6"}
        /\ x # NoIP
        /\ ClearLow(x.v, hostBits) = net.ip

\* ------------------------------------------------------- uint32 arithmetic
\* v >> (8 * k) and byte(v), scaled to ByteBits-bit bytes.
ShrBytes(v, k) == v \div (ByteBase ^ k)
ByteOf(v) == v % ByteBase

\* x << n with the shift count taken modulo the word size.
ShlWrapsCount(x, n) == (x * (2 ^ (n % WordBits))) % WordMod

\* x << n on a uint32: bits shifted past the word are lost; a shift count
\* of WordBits or more (also uint(negative)) gives 0.
Shl(x, n) == IF n < 0 \/ n >= WordBits THEN 0 ELSE (x * (2 ^ n)) % WordMod

\* a | b on uint32.
RECURSIVE BitOr(_, _)
BitOr(a, b) ==
    IF a = 0 THEN b
    ELSE IF b = 0 THEN a
    ELSE (IF a % 2 = 1 \/ b % 2 = 1 THEN 1 ELSE 0) + 2 * BitOr(a \div 2, b \div 2)

\* a - b on uint32 (wraps).
SubWord(a, b) == (a - b + WordMod) % WordMod

\* ------------------------------------------------------------ range codec
\* The bytes of a 4-byte net.IP holding address v.
IPBytes(v) == [i \in 1..BytesPerWord |-> ByteOf(ShrBytes(v, BytesPerWord - i))]

\* ipv4ToUint32: 0 for a non-IPv4 address, else the big-endian packing.
ipv4ToUint32(ip) ==
    LET x == To4(ip)
    IN  IF x = NoIP THEN 0
        ELSE LET b == IPBytes(x.v)
             IN  BitOr(BitOr(Shl(b[1], 3 * ByteBits), Shl(b[2], 2 * ByteBits)),
                       BitOr(Shl(b[3], ByteBits), b[4]))

\* The four bytes of v, least significant first.
encodeUint32LE(v) ==
    <<ByteOf(v), ByteOf(ShrBytes(v, 1)), ByteOf(ShrBytes(v, 2)), ByteOf(ShrBytes(v, 3))>>

\* encodeUint32BE with b[0] taken from the shift of b[1].
encodeUint32Shift16(v) ==
    <<ByteOf(ShrBytes(v, 2)), ByteOf(ShrBytes(v, 2)), ByteOf(ShrBytes(v, 1)), ByteOf(v)>>

\* encodeUint32BE: the four bytes of v, most significant first.
encodeUint32BE(v) ==
    <<ByteOf(ShrBytes(v, 3)), ByteOf(ShrBytes(v, 2)), ByteOf(ShrBytes(v, 1)), ByteOf(v)>>

\* The word of four bytes read least significant first.
decodeUint32LE(b) ==
    BitOr(BitOr(Shl(b[4], 3 * ByteBits), Shl(b[3], 2 * ByteBits)),
          BitOr(Shl(b[2], ByteBits), b[1]))

\* decodeUint32BE: the word of four big-endian bytes.
decodeUint32BE(b) ==
    BitOr(BitOr(Shl(b[1], 3 * ByteBits), Shl(b[2], 2 * ByteBits)),
          BitOr(Shl(b[3], ByteBits), b[4]))

NoRange == [ok |-> FALSE, start |-> 0, end |-> 0]

\* parseIPRange: CIDR when the text contains "/", else "start-end" with
\* both parts trimmed.  The IPv4 path of the CIDR branch is taken for
\* every network ParseCIDR accepts.
\* parseIPRange taking the address as written, not the network address,
\* for the start of a CIDR block.
parseIPRangeUnmasked(ipRange) ==
    IF StrContains(ipRange, Slash)
    THEN LET net == ParseCIDR(ipRange)
         IN  IF ~net.ok THEN NoRange
             ELSE LET start == ipv4ToUint32(ParseIP(<<ipRange[1]>>))
                      hostBits == WordBits - net.ones
                  IN  [ok |-> TRUE, start |-> start,
                       end |-> BitOr(start, SubWord(Shl(1, hostBits), 1))]
    ELSE LET parts == StrSplit(ipRange, Dash)
         IN  IF Len(parts) # 2 THEN NoRange
             ELSE LET startIP == To4(ParseIP(TrimSpace(parts[1])))
                      endIP == To4(ParseIP(TrimSpace(parts[2])))
                  IN  IF startIP = NoIP \/ endIP = NoIP THEN NoRange
                      ELSE [ok |-> TRUE, start |-> ipv4ToUint32(startIP),
                            end |-> ipv4ToUint32(endIP)]

parseIPRange(ipRange) ==
    IF StrContains(ipRange, Slash)
    THEN LET net == ParseCIDR(ipRange)
         IN  IF ~net.ok THEN NoRange
             ELSE LET start == ipv4ToUint32([fam |-> net.fam, v |-> net.ip])
                      hostBits == WordBits - net.ones
                  IN  [ok |-> TRUE, start |-> start,
                       end |-> BitOr(start, SubWord(Shl(1, hostBits), 1))]
    ELSE LET parts == StrSplit(ipRange, Dash)
         IN  IF Len(parts) # 2 THEN NoRange
             ELSE LET startIP == To4(ParseIP(TrimSpace(parts[1])))
                      endIP == To4(ParseIP(TrimSpace(parts[2])))
                  IN  IF startIP = NoIP \/ endIP = NoIP THEN NoRange
                      ELSE [ok |-> TRUE, start |-> ipv4ToUint32(startIP),
                            end |-> ipv4ToUint32(endIP)]

\* ipv4InCIDR
ipv4InCIDR(ip, cidr) ==
    LET net == ParseCIDR(cidr)
        ipAddr == ParseIP(ip)
    IN  net.ok /\ ipAddr # NoIP /\ NetContains(net, ipAddr)

\* ipv4InRange with the end bound taken as exclusive.
ipv4InRangeExclusive(ip, ipRange) ==
    IF StrContains(ipRange, Slash) THEN ipv4InCIDR(ip, ipRange)
    ELSE LET parts == StrSplit(ipRange, Dash)
         IN  IF Len(parts) # 2 THEN FALSE
             ELSE LET ipAddr == To4(ParseIP(ip))
                      startIP == To4(ParseIP(parts[1]))
                      endIP == To4(ParseIP(parts[2]))
                  IN  IF ipAddr = NoIP \/ startIP = NoIP \/ endIP = NoIP THEN FALSE
                      ELSE /\ ipv4ToUint32(ipAddr) >= ipv4ToUint32(startIP)
                           /\ ipv4ToUint32(ipAddr) < ipv4ToUint32(endIP)

\* ipv4InRange: CIDR membership or numeric bounds; the parts of a
\* "start-end" text are not trimmed here.
ipv4InRange(ip, ipRange) ==
    IF StrContains(ipRange, Slash) THEN ipv4InCIDR(ip, ipRange)
    ELSE LET parts == StrSplit(ipRange, Dash)
         IN  IF Len(parts) # 2 THEN FALSE
             ELSE LET ipAddr == To4(ParseIP(ip))
                      startIP == To4(ParseIP(parts[1]))
                      endIP == To4(ParseIP(parts[2]))
                  IN  IF ipAddr = NoIP \/ startIP = NoIP \/ endIP = NoIP THEN FALSE
                      ELSE /\ ipv4ToUint32(ipAddr) >= ipv4ToUint32(startIP)
                           /\ ipv4ToUint32(ipAddr) <= ipv4ToUint32(endIP)

\* --------------------------------------------------------- bbolt buckets
\* A bucket is a function from keys to values; a cursor walks its keys in
\* bytes.Compare order.
EmptyBucket == << >>

Put(bucket, k, val) == [x \in (DOMAIN bucket) \cup {k} |-> IF x = k THEN val ELSE bucket[x]]

\* bytes.Compare(a, b) < 0 on byte strings.
RECURSIVE KeyLess(_, _)
KeyLess(a, b) ==
    IF a = <<>> THEN b # <<>>
    ELSE IF b = <<>> THEN FALSE
    ELSE IF Head(a) = Head(b) THEN KeyLess(Tail(a), Tail(b))
    ELSE Head(a) < Head(b)

\* Cursor order of the numeric bucket: First(), then Next() until nil.
RECURSIVE NumericCursor(_)
NumericCursor(keys) ==
    IF keys = {} THEN <<>>
    ELSE LET k == CHOOSE x \in keys : \A y \in keys \ {x} : KeyLess(x, y)
         IN  <<k>> \o NumericCursor(keys \ {k})

\* Cursor order of the textual bucket.
RECURSIVE TextCursor(_)
TextCursor(keys) ==
    IF keys = {} THEN <<>>
    ELSE LET k == CHOOSE x \in keys : \A y \in keys \ {x} : TextLess(x, y)
         IN  <<k>> \o TextCursor(keys \ {k})

\* The 8-byte key of the numeric bucket.
NumericKey(start, end) == encodeUint32BE(start) \o encodeUint32BE(end)

KeyLen == 2 * BytesPerWord
KeyStart(k) == decodeUint32BE(SubSeq(k, 1, BytesPerWord))
KeyEnd(k) == decodeUint32BE(SubSeq(k, BytesPerWord + 1, KeyLen))

\* ----------------------------------------------------------------- cache
\* putCountry with the reset taken only when currentSize > maxSize.
putCountryLateReset(c, ip, country) ==
    LET full == c.currentSize > c.maxSize
        base == IF full THEN << >> ELSE c.cache
        size == IF full THEN 0 ELSE c.currentSize
    IN  [cache |-> [x \in (DOMAIN base) \cup {ip} |-> IF x = ip THEN country ELSE base[x]],
         maxSize |-> c.maxSize,
         currentSize |-> size + 1]

\* putCountry: reset when currentSize >= maxSize, then insert and count.
putCountry(c, ip, country) ==
    LET full == c.currentSize >= c.maxSize
        base == IF full THEN EmptyBucket ELSE c.cache
        size == IF full THEN 0 ELSE c.currentSize
    IN  [cache |-> Put(base, ip, country),
         maxSize |-> c.maxSize,
         currentSize |-> size + 1]

\* getCountry
getCountry(c, ip) ==
    IF ip \in DOMAIN c.cache THEN [found |-> TRUE, country |-> c.cache[ip]]
    ELSE [found |-> FALSE, country |-> ""]

\* ------------------------------------------------------------ resolution
ScanMiss(n) == [found |-> FALSE, country |-> "", key |-> <<>>, examined |-> n]

\* NumericLoop without the early exit: the cursor runs to the last key
\* unless a match returns.
RECURSIVE NumericLoopNoExit(_, _, _, _)
NumericLoopNoExit(keys, bucket, ipNum, n) ==
    IF keys = <<>> THEN ScanMiss(n)
    ELSE LET k == Head(keys)
         IN  IF Len(k) >= KeyLen /\ ipNum >= KeyStart(k) /\ ipNum <= KeyEnd(k)
             THEN [found |-> TRUE, country |-> bucket[k], key |-> k,
                   examined |-> n + 1]
             ELSE NumericLoopNoExit(Tail(keys), bucket, ipNum, n + 1)

\* NumericLoop with the early exit taken as soon as start >= ipNum.
RECURSIVE NumericLoopExitAtEqual(_, _, _, _)
NumericLoopExitAtEqual(keys, bucket, ipNum, n) ==
    IF keys = <<>> THEN ScanMiss(n)
    ELSE LET k == Head(keys)
         IN  IF ipNum >= KeyStart(k) /\ ipNum <= KeyEnd(k)
             THEN [found |-> TRUE, country |-> bucket[k], key |-> k, examined |-> n + 1]
             ELSE IF KeyStart(k) >= ipNum THEN ScanMiss(n + 1)
             ELSE NumericLoopExitAtEqual(Tail(keys), bucket, ipNum, n + 1)

\* The cursor loop of lookupCountryByIPNumeric over the remaining keys;
\* n counts the entries examined so far.
RECURSIVE NumericLoop(_, _, _, _)
NumericLoop(keys, bucket, ipNum, n) ==
    IF keys = <<>> THEN ScanMiss(n)
    ELSE LET k == Head(keys)
         IN  IF Len(k) >= KeyLen
             THEN IF ipNum >= KeyStart(k) /\ ipNum <= KeyEnd(k)
                  THEN [found |-> TRUE, country |-> bucket[k], key |-> k,
                        examined |-> n + 1]
                  ELSE IF KeyStart(k) > ipNum THEN ScanMiss(n + 1)
                  ELSE NumericLoop(Tail(keys), bucket, ipNum, n + 1)
             ELSE NumericLoop(Tail(keys), bucket, ipNum, n + 1)

lookupCountryByIPNumeric(bucket, ipNum) ==
    NumericLoop(NumericCursor(DOMAIN bucket), bucket, ipNum, 0)

\* The fallback loop of lookupCountryByIP over the textual bucket.
RECURSIVE TextLoop(_, _, _)
TextLoop(keys, bucket, ip) ==
    IF keys = <<>> THEN [found |-> FALSE, country |-> "", key |-> <<>>]
    ELSE IF ipv4InRange(ip, Head(keys))
         THEN [found |-> TRUE, country |-> bucket[Head(keys)], key |-> Head(keys)]
         ELSE TextLoop(Tail(keys), bucket, ip)

\* lookupCountryByIP without the cache lookup: every call reads the store.
lookupCountryByIPNoCacheRead(c, tbucket, nbucket, ip) ==
    LET ipAddr == To4(ParseIP(ip))
        num == lookupCountryByIPNumeric(nbucket, ipv4ToUint32(ipAddr))
        txt == TextLoop(TextCursor(DOMAIN tbucket), tbucket, ip)
    IN  IF ipAddr = NoIP
        THEN [ok |-> FALSE, country |-> "", via |-> "invalid", cache |-> c]
        ELSE IF num.found
        THEN [ok |-> TRUE, country |-> num.country, via |-> "numeric",
              cache |-> putCountry(c, ip, num.country)]
        ELSE IF txt.found
        THEN [ok |-> TRUE, country |-> txt.country, via |-> "textual",
              cache |-> putCountry(c, ip, txt.country)]
        ELSE [ok |-> FALSE, country |-> "", via |-> "notfound", cache |-> c]

\* lookupCountryByIP caching under the dotted form of the parsed address
\* instead of the query string.
lookupCountryByIPCanonicalKey(c, tbucket, nbucket, ip) ==
    LET hit == getCountry(c, ip)
        ipAddr == To4(ParseIP(ip))
        num == lookupCountryByIPNumeric(nbucket, ipv4ToUint32(ipAddr))
        txt == TextLoop(TextCursor(DOMAIN tbucket), tbucket, ip)
    IN  IF hit.found
        THEN [ok |-> TRUE, country |-> hit.country, via |-> "cache", cache |-> c]
        ELSE IF ipAddr = NoIP
        THEN [ok |-> FALSE, country |-> "", via |-> "invalid", cache |-> c]
        ELSE IF num.found
        THEN [ok |-> TRUE, country |-> num.country, via |-> "numeric",
              cache |-> putCountry(c, <<Ip4(ipAddr.v)>>, num.country)]
        ELSE IF txt.found
        THEN [ok |-> TRUE, country |-> txt.country, via |-> "textual",
              cache |-> putCountry(c, <<Ip4(ipAddr.v)>>, txt.country)]
        ELSE [ok |-> FALSE, country |-> "", via |-> "notfound", cache |-> c]

\* lookupCountryByIP caching the empty result of a failed search as well.
lookupCountryByIPCachesMiss(c, tbucket, nbucket, ip) ==
    LET hit == getCountry(c, ip)
        ipAddr == To4(ParseIP(ip))
        num == lookupCountryByIPNumeric(nbucket, ipv4ToUint32(ipAddr))
        txt == TextLoop(TextCursor(DOMAIN tbucket), tbucket, ip)
    IN  IF hit.found
        THEN [ok |-> TRUE, country |-> hit.country, via |-> "cache", cache |-> c]
        ELSE IF ipAddr = NoIP
        THEN [ok |-> FALSE, country |-> "", via |-> "invalid", cache |-> c]
        ELSE IF num.found
        THEN [ok |-> TRUE, country |-> num.country, via |-> "numeric",
              cache |-> putCountry(c, ip, num.country)]
        ELSE IF txt.found
        THEN [ok |-> TRUE, country |-> txt.country, via |-> "textual",
              cache |-> putCountry(c, ip, txt.country)]
        ELSE [ok |-> FALSE, country |-> "", via |-> "notfound",
              cache |-> putCountry(c, ip, "")]

\* lookupCountryByIP: returned country and error, the path that served the
\* call (via), and the cache after the call.
lookupCountryByIP(c, tbucket, nbucket, ip) ==
    LET hit == getCountry(c, ip)
    IN  IF hit.found
        THEN [ok |-> TRUE, country |-> hit.country, via |-> "cache", cache |-> c]
        ELSE LET ipAddr == To4(ParseIP(ip))
             IN  IF ipAddr = NoIP
                 THEN [ok |-> FALSE, country |-> "", via |-> "invalid", cache |-> c]
                 ELSE LET ipNum == ipv4ToUint32(ipAddr)
                          num == lookupCountryByIPNumeric(nbucket, ipNum)
                          txt == TextLoop(TextCursor(DOMAIN tbucket), tbucket, ip)
                      IN  IF num.found
                          THEN [ok |-> TRUE, country |-> num.country, via |-> "numeric",
                                cache |-> putCountry(c, ip, num.country)]
                          ELSE IF txt.found
                          THEN [ok |-> TRUE, country |-> txt.country, via |-> "textual",
                                cache |-> putCountry(c, ip, txt.country)]
                          ELSE [ok |-> FALSE, country |-> "", via |-> "notfound",
                                cache |-> c]

\* ------------------------------------------------------------ store writes
\* The database as seen by one transaction: both buckets.
DB(t, n) == [ip_ranges |-> t, ip_ranges_numeric |-> n]

\* The textual loop of writeBatch writing and counting every entry of the
\* batch, changed or not.
RECURSIVE WriteTextualAlwaysCounts(_, _, _)
WriteTextualAlwaysCounts(bucket, batch, updated) ==
    IF DOMAIN batch = {} THEN [bucket |-> bucket, updated |-> updated]
    ELSE LET ipRange == CHOOSE x \in DOMAIN batch : TRUE
             rest == [x \in (DOMAIN batch) \ {ipRange} |-> batch[x]]
         IN  CHOOSE out \in {WriteTextualAlwaysCounts(w, r, updated + 1) :
                                 w \in {Put(bucket, ipRange, batch[ipRange])},
                                 r \in {rest}} : TRUE

\* The textual loop of writeBatch leaving only the batch in the bucket.
WriteTextualReplacesBucket(bucket, batch, updated) ==
    [bucket |-> batch, updated |-> updated + Cardinality(DOMAIN batch)]

\* The textual loop of writeBatch: diff-before-write, counted in updated.
\* (A Go map is walked in any order; the keys are distinct, so the order
\* does not change the result.)  Here and in the loops below, the value
\* carried to the next iteration is bound by a singleton set so that it is
\* computed once per iteration.
RECURSIVE WriteTextual(_, _, _)
WriteTextual(bucket, batch, updated) ==
    IF DOMAIN batch = {} THEN [bucket |-> bucket, updated |-> updated]
    ELSE LET ipRange == CHOOSE x \in DOMAIN batch : TRUE
             countryCode == batch[ipRange]
             existingCountry == IF ipRange \in DOMAIN bucket THEN bucket[ipRange] ELSE ""
             rest == [x \in (DOMAIN batch) \ {ipRange} |-> batch[x]]
             written == IF existingCountry # countryCode
                        THEN [bucket |-> Put(bucket, ipRange, countryCode),
                              updated |-> updated + 1]
                        ELSE [bucket |-> bucket, updated |-> updated]
         IN  CHOOSE out \in {WriteTextual(w.bucket, r, w.updated) :
                                 w \in {written}, r \in {rest}} : TRUE

\* The numeric loop of writeBatch writing only keys that are absent.
RECURSIVE WriteNumericIfAbsent(_, _)
WriteNumericIfAbsent(bucket, numericBatch) ==
    IF numericBatch = <<>> THEN bucket
    ELSE LET ipRange == Head(numericBatch)
             key == NumericKey(ipRange.Start, ipRange.End)
             written == IF key \notin DOMAIN bucket
                        THEN Put(bucket, key, ipRange.Country)
                        ELSE bucket
         IN  CHOOSE out \in {WriteNumericIfAbsent(w, r) :
                                 w \in {written}, r \in {Tail(numericBatch)}} : TRUE

\* The numeric loop of writeBatch: written when absent or different.
RECURSIVE WriteNumeric(_, _)
WriteNumeric(bucket, numericBatch) ==
    IF numericBatch = <<>> THEN bucket
    ELSE LET ipRange == Head(numericBatch)
             key == NumericKey(ipRange.Start, ipRange.End)
             written == IF key \notin DOMAIN bucket \/ bucket[key] # ipRange.Country
                        THEN Put(bucket, key, ipRange.Country)
                        ELSE bucket
         IN  CHOOSE out \in {WriteNumeric(w, r) :
                                 w \in {written}, r \in {Tail(numericBatch)}} : TRUE

\* Outcome of one write transaction, chosen by the environment: it commits
\* ("none"), it cannot begin (database closed or opened read-only: the
\* closure never runs), or the closure runs and the commit fails with an
\* I/O error (every write of the transaction is rolled back).
Faults == {"none", "begin", "commit"}

\* writeBatch keeping the textual Puts of a transaction whose commit fails.
writeBatchKeepsTextOnFault(db, batch, numericBatch, fault) ==
    CHOOSE out \in
        {[db |-> IF fault = "none" THEN DB(txt.bucket, num)
                 ELSE IF fault = "commit" THEN DB(txt.bucket, db.ip_ranges_numeric)
                 ELSE db,
          updated |-> IF fault = "begin" THEN 0 ELSE txt.updated,
          err |-> fault # "none"] :
             txt \in {WriteTextual(db.ip_ranges, batch, 0)},
             num \in {WriteNumeric(db.ip_ranges_numeric, numericBatch)}} : TRUE

\* writeBatch: both loops inside one transaction.  The closure counts
\* updated while it runs, before the commit is attempted.
writeBatch(db, batch, numericBatch, fault) ==
    CHOOSE out \in
        {[db |-> IF fault = "none" THEN DB(txt.bucket, num) ELSE db,
          updated |-> IF fault = "begin" THEN 0 ELSE txt.updated,
          err |-> fault # "none"] :
             txt \in {WriteTextual(db.ip_ranges, batch, 0)},
             num \in {WriteNumeric(db.ip_ranges_numeric, numericBatch)}} : TRUE

\* upsertIPRangeCountry: unconditional Put into both buckets in one
\* transaction.  Bucket.Put rejects an empty key (the closure returns the
\* error and the transaction is rolled back); success is set by the
\* closure after both Puts, before the commit.
upsertIPRangeCountry(db, ipRange, start, end, countryCode, fault) ==
    LET t == Put(db.ip_ranges, ipRange, countryCode)
        n == Put(db.ip_ranges_numeric, NumericKey(start, end), countryCode)
        closureRuns == fault # "begin"
        closureErr == closureRuns /\ ipRange = <<>>
        committed == closureRuns /\ ~closureErr /\ fault = "none"
    IN  [db |-> IF committed THEN DB(t, n) ELSE db,
         success |-> closureRuns /\ ~closureErr,
         committed |-> committed,
         err |-> ~committed]

\* ------------------------------------------------------------- zone import
\* A zone file: name is the base name split at its dots (<<"FR", ".",
\* "zone">>), lines are the lines of the file.
CountryOfName(name) ==
    IF \A i \in 1..Len(name) : name[i] # "." THEN [panic |-> TRUE, code |-> ""]
    ELSE IF name[1] = "." THEN [panic |-> FALSE, code |-> ""]
    ELSE [panic |-> FALSE, code |-> name[1]]

\* net.IP.IsLoopback / IsPrivate / IsLinkLocalUnicast / IsLinkLocalMulticast:
\* the top quarter of the scaled IPv4 space stands for 10/8, 127/8,
\* 169.254/16, 172.16/12, 192.168/16 and 224.0.0/24; an IPv6 literal with
\* v = 1 stands for ::1, fe80::/10, fc00::/7 and ff02::/16.
IsPrivateOrLocalIP(ip) ==
    IF ip.fam \in {"v4", "v4in6"} THEN ip.v >= 3 * (2 ^ (WordBits - 2))
    ELSE ip.fam = "v6" /\ ip.v = 1

\* isPrivateOrLocalCIDR: classifies the address before the "/" of a text
\* with exactly one "/"; false for any other text.
isPrivateOrLocalCIDR(ipRange) ==
    LET parts == StrSplit(ipRange, Slash)
    IN  IF Len(parts) # 2 THEN FALSE
        ELSE LET ip == ParseIP(parts[1])
             IN  IF ip = NoIP THEN FALSE ELSE IsPrivateOrLocalIP(ip)

\* The skip test on a trimmed line: empty, "#..." or "//...".
IsCommentOrBlank(ipRange) ==
    \/ ipRange = <<>>
    \/ Head(ipRange) = Hash
    \/ Len(ipRange) >= 2 /\ ipRange[1] = Slash /\ ipRange[2] = Slash

\* State of the scanner loop of importZoneFile.  nbatch counts the
\* writeBatch calls made so far; faults[i] is the outcome of the i-th.
ImportState(db, code) ==
    [db |-> db, country_code |-> code, processed |-> 0, updated |-> 0,
     skipped |-> 0, batch |-> EmptyBucket, numericBatch |-> <<>>,
     nbatch |-> 0, failed |-> 0, batchSize |-> batchSize]

FaultAt(faults, i) == IF i \in DOMAIN faults THEN faults[i] ELSE "none"

\* FlushBatch assigning the count of the batch to updated instead of
\* adding it.
FlushBatchOverwritesCount(st, faults) ==
    CHOOSE out \in
        {[st EXCEPT !.db = r.db,
                    !.updated = r.updated,
                    !.batch = EmptyBucket,
                    !.numericBatch = <<>>,
                    !.nbatch = st.nbatch + 1,
                    !.failed = st.failed + (IF r.err THEN 1 ELSE 0)] :
             r \in {writeBatch(st.db, st.batch, st.numericBatch,
                               FaultAt(faults, st.nbatch + 1))}} : TRUE

\* One call of writeBatch from importZoneFile: the error is printed, not
\* returned; updated is added in either case; the batch is emptied.
FlushBatch(st, faults) ==
    CHOOSE out \in
        {[st EXCEPT !.db = r.db,
                    !.updated = st.updated + r.updated,
                    !.batch = EmptyBucket,
                    !.numericBatch = <<>>,
                    !.nbatch = st.nbatch + 1,
                    !.failed = st.failed + (IF r.err THEN 1 ELSE 0)] :
             r \in {writeBatch(st.db, st.batch, st.numericBatch,
                               FaultAt(faults, st.nbatch + 1))}} : TRUE

\* The loop iteration counting a private or local line as processed.
ImportLineCountsPrivate(st, line, faults) ==
    LET ipRange == TrimSpace(line)
        r == parseIPRange(ipRange)
    IN  IF IsCommentOrBlank(ipRange) THEN st
        ELSE IF isPrivateOrLocalCIDR(ipRange)
             THEN [st EXCEPT !.processed = st.processed + 1,
                             !.skipped = st.skipped + 1]
        ELSE IF ~r.ok
             THEN [st EXCEPT !.processed = st.processed + 1,
                             !.skipped = st.skipped + 1]
        ELSE CHOOSE out \in
                 {IF Cardinality(DOMAIN added.batch) >= st.batchSize
                  THEN FlushBatch(added, faults)
                  ELSE added :
                      added \in
                          {[st EXCEPT !.processed = st.processed + 1,
                                      !.batch = Put(st.batch, ipRange, st.country_code),
                                      !.numericBatch = Append(st.numericBatch,
                                          [Start |-> r.start, End |-> r.end,
                                           Country |-> st.country_code])]}} : TRUE

\* One iteration of the scanner loop on one line of the file.
ImportLine(st, line, faults) ==
    LET ipRange == TrimSpace(line)
        r == parseIPRange(ipRange)
    IN  IF IsCommentOrBlank(ipRange) THEN st
        ELSE IF isPrivateOrLocalCIDR(ipRange)
             THEN [st EXCEPT !.skipped = st.skipped + 1]
        ELSE IF ~r.ok
             THEN [st EXCEPT !.processed = st.processed + 1,
                             !.skipped = st.skipped + 1]
        ELSE CHOOSE out \in
                 {IF Cardinality(DOMAIN added.batch) >= st.batchSize
                  THEN FlushBatch(added, faults)
                  ELSE added :
                      added \in
                          {[st EXCEPT !.processed = st.processed + 1,
                                      !.batch = Put(st.batch, ipRange, st.country_code),
                                      !.numericBatch = Append(st.numericBatch,
                                          [Start |-> r.start, End |-> r.end,
                                           Country |-> st.country_code])]}} : TRUE

RECURSIVE ImportLoop(_, _, _)
ImportLoop(st, lines, faults) ==
    IF lines = <<>> THEN st
    ELSE CHOOSE out \in {ImportLoop(next, rest, faults) :
                             next \in {ImportLine(st, Head(lines), faults)},
                             rest \in {Tail(lines)}} : TRUE

\* importZoneFile: the country code from the file name, the scanner loop,
\* the last batch.  readErr is scanner.Err() (a read error of the file,
\* seen after the loop); a file name without "." makes the slice
\* expression panic before anything is read.  size is the value the
\* build gives the constant batchSize of the function.
importZoneFileSized(db, file, faults, readErr, size) ==
    LET cc == CountryOfName(file.name)
    IN  IF cc.panic
        THEN [db |-> db, processed |-> 0, updated |-> 0, err |-> TRUE,
              panic |-> TRUE, failed |-> 0, nbatch |-> 0]
        ELSE IF cc.code = ""
        THEN [db |-> db, processed |-> 0, updated |-> 0, err |-> TRUE,
              panic |-> FALSE, failed |-> 0, nbatch |-> 0]
        ELSE CHOOSE out \in
                 {[db |-> st.db, processed |-> st.processed, updated |-> st.updated,
                   err |-> readErr, panic |-> FALSE, failed |-> st.failed,
                   nbatch |-> st.nbatch] :
                      st \in {IF DOMAIN looped.batch # {}
                              THEN FlushBatch(looped, faults)
                              ELSE looped :
                                  looped \in {ImportLoop(
                                      [ImportState(db, cc.code) EXCEPT !.batchSize = size],
                                      file.lines, faults)}}} : TRUE

importZoneFile(db, file, faults, readErr) ==
    importZoneFileSized(db, file, faults, readErr, batchSize)

\* strings.Contains(path, "zz.zone") on a path split at its dots and
\* slashes: some piece ends in "zz", a dot follows, and the next piece
\* starts with "zone".
EndsInZZ(piece) == piece \in {"zz", "xzz"}
StartsWithZone(piece) == piece \in {"zone", "zonex"}
ContainsReserved(path) ==
    \E i \in 1..(Len(path) - 2) :
        EndsInZZ(path[i]) /\ path[i + 1] = "." /\ StartsWithZone(path[i + 2])

\* filepath.Glob(dir/*.zone): the base name ends in ".zone".
MatchesZone(name) ==
    Len(name) >= 2 /\ name[Len(name) - 1] = "." /\ name[Len(name)] = "zone"

\* The directory loop giving up at the first file whose import fails.
RECURSIVE DirectoryLoopStopsAtError(_, _, _, _)
DirectoryLoopStopsAtError(acc, dir, i, faultsOf) ==
    IF i > Len(dir.files) \/ acc.panic THEN acc
    ELSE LET file == dir.files[i]
             path == dir.path \o <<"/">> \o file.name
         IN  IF ~MatchesZone(file.name) \/ ContainsReserved(path)
             THEN DirectoryLoopStopsAtError(acc, dir, i + 1, faultsOf)
             ELSE CHOOSE out \in
                      {IF next.panic \/ next.errors > 0 THEN next
                       ELSE DirectoryLoopStopsAtError(next, dir, i + 1, faultsOf) :
                           next \in
                               {IF r.panic
                                THEN [acc EXCEPT !.panic = TRUE]
                                ELSE IF r.err
                                THEN [acc EXCEPT !.db = r.db,
                                                 !.failed = acc.failed + r.failed,
                                                 !.files = Append(acc.files, file.name),
                                                 !.errors = acc.errors + 1]
                                ELSE [acc EXCEPT !.db = r.db,
                                                 !.processed = acc.processed + r.processed,
                                                 !.updated = acc.updated + r.updated,
                                                 !.failed = acc.failed + r.failed,
                                                 !.files = Append(acc.files, file.name)] :
                                    r \in {importZoneFile(acc.db, file, faultsOf[i],
                                                          i \in dir.unreadable)}}} : TRUE

\* The loop of importZoneDirectory over the files of the directory, in the
\* name order Glob returns; i is the position of the next file.  files
\* lists the names importZoneFile was called on and errors counts the
\* calls that returned an error (the lines the loop prints).
\* dir.unreadable holds the positions of the files whose read ends with
\* an error (scanner.Err() of importZoneFile).
RECURSIVE DirectoryLoop(_, _, _, _)
DirectoryLoop(acc, dir, i, faultsOf) ==
    IF i > Len(dir.files) \/ acc.panic THEN acc
    ELSE LET file == dir.files[i]
             path == dir.path \o <<"/">> \o file.name
         IN  IF ~MatchesZone(file.name) \/ ContainsReserved(path)
             THEN DirectoryLoop(acc, dir, i + 1, faultsOf)
             ELSE CHOOSE out \in
                      {IF next.panic THEN next
                       ELSE DirectoryLoop(next, dir, i + 1, faultsOf) :
                           next \in
                               {IF r.panic
                                THEN [acc EXCEPT !.panic = TRUE]
                                ELSE IF r.err
                                THEN [acc EXCEPT !.db = r.db,
                                                 !.failed = acc.failed + r.failed,
                                                 !.files = Append(acc.files, file.name),
                                                 !.errors = acc.errors + 1]
                                ELSE [acc EXCEPT !.db = r.db,
                                                 !.processed = acc.processed + r.processed,
                                                 !.updated = acc.updated + r.updated,
                                                 !.failed = acc.failed + r.failed,
                                                 !.files = Append(acc.files, file.name)] :
                                    r \in {importZoneFile(acc.db, file, faultsOf[i],
                                                          i \in dir.unreadable)}}} : TRUE

importZoneDirectory(db, dir, faultsOf) ==
    DirectoryLoop([db |-> db, processed |-> 0, updated |-> 0, err |-> FALSE,
                   panic |-> FALSE, failed |-> 0, files |-> <<>>, errors |-> 0],
                  dir, 1, faultsOf)

\* ------------------------------------------------------------------- audit
\* The audit loop warning also when start equals the previous start.
RECURSIVE VerifyLoopWarnsOnEqual(_, _, _, _)
VerifyLoopWarnsOnEqual(keys, count, lastStart, warnings) ==
    IF keys = <<>> THEN [count |-> count, warnings |-> warnings]
    ELSE LET k == Head(keys)
         IN  IF Len(k) >= BytesPerWord
             THEN LET start == decodeUint32BE(SubSeq(k, 1, BytesPerWord))
                  IN  VerifyLoopWarnsOnEqual(Tail(keys), count + 1, start,
                                 IF count > 0 /\ start <= lastStart
                                 THEN warnings + 1 ELSE warnings)
             ELSE VerifyLoopWarnsOnEqual(Tail(keys), count, lastStart, warnings)

\* The cursor loop of verifyRangeIndexes over the keys in iteration order.
RECURSIVE VerifyLoop(_, _, _, _)
VerifyLoop(keys, count, lastStart, warnings) ==
    IF keys = <<>> THEN [count |-> count, warnings |-> warnings]
    ELSE LET k == Head(keys)
         IN  IF Len(k) >= BytesPerWord
             THEN LET start == decodeUint32BE(SubSeq(k, 1, BytesPerWord))
                  IN  VerifyLoop(Tail(keys), count + 1, start,
                                 IF count > 0 /\ start < lastStart
                                 THEN warnings + 1 ELSE warnings)
             ELSE VerifyLoop(Tail(keys), count, lastStart, warnings)

\* verifyRangeIndexes returning the number of warnings as its count.
verifyRangeIndexesReturnsWarnings(db) ==
    [count |-> VerifyLoop(NumericCursor(DOMAIN db.ip_ranges_numeric), 0, 0, 0).warnings,
     warnings |-> VerifyLoop(NumericCursor(DOMAIN db.ip_ranges_numeric), 0, 0, 0).warnings]

\* verifyRangeIndexes: the returned count, and the warnings it only prints.
verifyRangeIndexes(db) ==
    VerifyLoop(NumericCursor(DOMAIN db.ip_ranges_numeric), 0, 0, 0)

\* ----------------------------------------------------------------- inputs
Countries == {"FR", "DE"}

RangeA == <<Ip4(0), Dash, Ip4(3)>>
CidrA == <<Ip4(1), Slash, Num(WordBits - 2)>>
RangeB == <<Ip4(2), Dash, Ip4(5)>>
Inverted == <<Ip4(6), Dash, Ip4(4)>>
Spaced == <<Ip4(4), Sp, Dash, Sp, Ip4(6)>>
CidrV6 == <<Ip6, Slash, Num(0)>>
PrivateCidr == <<Ip4(MaxWord), Slash, Num(WordBits)>>
Comment == <<Hash, Word>>
Garbage == <<Word>>

\* Range texts passed to upsertIPRangeCountry.
UpsertTexts == {RangeA, CidrA, Inverted}

\* Bounds passed to upsertIPRangeCountry besides those parseIPRange gives.
FreeBounds == {<<7, 7>>}

FileFR == [name |-> <<"FR", ".", "zone">>,
           lines |-> <<RangeA, Comment, <<Sp>> \o RangeB, PrivateCidr, Spaced>>]
FileDE == [name |-> <<"DE", ".", "zone">>,
           lines |-> <<CidrA, Inverted, Garbage, CidrV6>>]
FileZZ == [name |-> <<"zz", ".", "zone">>, lines |-> <<RangeB>>]
Files == {FileFR, FileDE}

\* A directory: its path and its files in name order.
DirZones == [path |-> <<"zones">>, files |-> <<FileDE, FileFR, FileZZ>>,
             unreadable |-> {}]
Directories == {DirZones}

\* Files and directories for the import claims: a start-end line whose
\* start is a private address, a file whose name only ends in "zz.zone",
\* a file without country code, a file that is no zone file, and a
\* directory whose own name is the reserved one.
PrivateRange == <<Ip4(MaxWord - 1), Dash, Ip4(MaxWord)>>
FileIT == [name |-> <<"IT", ".", "zone">>,
           lines |-> <<PrivateRange, PrivateCidr, Garbage, RangeB>>]
FileXZZ == [name |-> <<"xzz", ".", "zone">>, lines |-> <<RangeA>>]
FileNoCode == [name |-> <<".", "zone">>, lines |-> <<RangeA>>]
FileNotes == [name |-> <<"notes", ".", "txt">>, lines |-> <<RangeA>>]
ImportFiles == {FileFR, FileDE, FileIT}
DirMixed == [path |-> <<"data">>,
             files |-> <<FileNoCode, FileDE, FileNotes, FileXZZ, FileZZ>>,
             unreadable |-> {}]
DirReserved == [path |-> <<"zz", ".", "zone">>, files |-> <<FileFR>>,
                unreadable |-> {}]
ImportDirectories == {DirZones, DirMixed, DirReserved}

\* Outcomes of the successive write transactions of one import.
FaultSeqs == {<<>>, <<"commit">>, <<"none", "begin">>}

\* Query strings passed to lookupCountryByIP.
Queries == {<<Ip4(2)>>, <<Ip4(4)>>, <<Ip4(5)>>, <<Ip4in6(2)>>, <<Word>>}

\* Contents of the two buckets a lookup may meet; every entry has a
\* country of its own, so that a result names the entry it came from.
\* Any such content with both buckets non-empty is reached by upserts.
LookupTexts == (CidrA :> "FR") @@ (RangeB :> "DE") @@ (Spaced :> "IT")
               @@ (CidrV6 :> "PT")
LookupKeys == (NumericKey(0, 3) :> "US") @@ (NumericKey(2, 5) :> "GB")
              @@ (NumericKey(6, 4) :> "JP") @@ (NumericKey(5, 7) :> "CN")
ScanKeys == LookupKeys @@ (NumericKey(2, 1) :> "BR") @@ (NumericKey(3, 3) :> "IN")

Restrict(f, S) == [x \in S |-> f[x]]

\* ------------------------------------------------------------------ state
VARIABLES
    ip_ranges,           \* textual bucket: range text -> country
    ip_ranges_numeric,   \* numeric bucket: 8-byte key -> country
    Cache,               \* IPCache: [cache, maxSize, currentSize]
    nWrites,             \* write operations made so far (bounds the model)
    since,               \* per cached key: inserts of other keys since its insert
    last,                \* the last operation and what it returned
    mutex,               \* IPCache.mutex: [readers, writer]
    procs,               \* per goroutine: where it is in its call, its locals
    bolt                 \* the bbolt.DB: file, open mode, buckets, writer lock;
                         \* history: the buckets at the end of each write call

vars == <<ip_ranges, ip_ranges_numeric, Cache, nWrites, since, last, mutex, procs, bolt>>

Store == DB(ip_ranges, ip_ranges_numeric)

\* Goroutines calling into the locator and the manager.
Readers == {"r1", "r2"}
Writers == {"w1", "w2"}
Procs == Readers \cup Writers

\* A sync.RWMutex nobody holds.
Unlocked == [readers |-> {}, writer |-> "none"]

NoDB == DB(EmptyBucket, EmptyBucket)

\* A goroutine outside every call.
IdleProc == [pc |-> "idle", ip |-> <<>>, country |-> "", via |-> "",
             snap |-> NoDB, dirty |-> NoDB, batch |-> EmptyBucket,
             numericBatch |-> <<>>]

BucketNames == {"ip_ranges", "ip_ranges_numeric", "ip_prefix_index"}

\* The database after openDatabase(path, false) on a new file.
OpenedRW == [open |-> "rw", file |-> TRUE, buckets |-> BucketNames,
             ip_prefix_index |-> EmptyBucket, rwlock |-> "none",
             history |-> {NoDB}]

\* No call in progress, on a database opened read-write.
Quiet ==
    /\ mutex = Unlocked
    /\ procs = [p \in Procs |-> IdleProc]
    /\ bolt = OpenedRW

\* listIPRangesByCountry with the comparison of the value left out.
listIPRangesByCountryNoFilter(bucket, countryCode) ==
    [ranges |-> TextCursor(DOMAIN bucket), err |-> FALSE]

\* listIPRangesByCountry: inside one read transaction, a cursor over the
\* whole textual bucket appends each key whose value is countryCode.
listIPRangesByCountry(bucket, countryCode) ==
    [ranges |-> SelectSeq(TextCursor(DOMAIN bucket),
                          LAMBDA k : bucket[k] = countryCode),
     err |-> FALSE]

NoCall == [op |-> "none", arg |-> <<>>, ok |-> TRUE, country |-> "", via |-> "",
           key |-> <<>>, processed |-> 0, updated |-> 0, failed |-> 0,
           err |-> FALSE, files |-> <<>>, errors |-> 0, warnings |-> 0,
           out |-> <<>>, start |-> 0, end |-> 0, less |-> FALSE,
           panic |-> FALSE, faults |-> <<>>, lines |-> <<>>, size |-> 0]

\* newIPCache
newIPCache(maxSize) == [cache |-> EmptyBucket, maxSize |-> maxSize, currentSize |-> 0]

\* After openDatabase on a new file and newIPLocator.
Init ==
    /\ ip_ranges = EmptyBucket
    /\ ip_ranges_numeric = EmptyBucket
    /\ \E maxSize \in 0..MaxCacheSize : Cache = newIPCache(maxSize)
    /\ nWrites = 0
    /\ since = EmptyBucket
    /\ last = NoCall
    /\ Quiet

\* since after an insert of ip that turned the cache into d.
SinceAfterPut(d, ip) ==
    [k \in DOMAIN d.cache |->
        IF k = ip THEN 0
        ELSE IF k \in DOMAIN since THEN since[k] + 1 ELSE 0]

\* Lookup(ip)
Resolve(ip) ==
    \E r \in {lookupCountryByIP(Cache, ip_ranges, ip_ranges_numeric, ip)} :
        /\ Cache' = r.cache
        /\ since' = IF r.via \in {"numeric", "textual"}
                    THEN SinceAfterPut(r.cache, ip) ELSE since
        /\ last' = [NoCall EXCEPT !.op = "resolve", !.arg = ip, !.ok = r.ok,
                                  !.country = r.country, !.via = r.via,
                                  !.err = ~r.ok]
        /\ UNCHANGED <<mutex, procs, bolt, ip_ranges, ip_ranges_numeric, nWrites>>

\* A direct insert into the cache (putCountry as the tests call it).
PutCountry(ip, country) ==
    LET d == putCountry(Cache, ip, country)
    IN  /\ Cache' = d
        /\ since' = SinceAfterPut(d, ip)
        /\ last' = [NoCall EXCEPT !.op = "put", !.arg = ip, !.country = country]
        /\ UNCHANGED <<mutex, procs, bolt, ip_ranges, ip_ranges_numeric, nWrites>>

\* lookupCountryByIPNumeric alone, inside a read transaction.
NumericLookup(ipNum) ==
    LET r == lookupCountryByIPNumeric(ip_ranges_numeric, ipNum)
    IN  /\ last' = [NoCall EXCEPT !.op = "scan", !.arg = <<ipNum>>, !.ok = r.found,
                                  !.country = r.country, !.key = r.key,
                                  !.processed = r.examined, !.err = ~r.found]
        /\ UNCHANGED <<mutex, procs, bolt, ip_ranges, ip_ranges_numeric, Cache, nWrites, since>>

\* UpsertRange(rangeStr, start, end, country)
UpsertRange(ipRange, start, end, countryCode, fault) ==
    /\ nWrites < MaxWrites
    /\ \E r \in {upsertIPRangeCountry(Store, ipRange, start, end, countryCode, fault)} :
        /\ nWrites' = nWrites + 1
        /\ ip_ranges' = r.db.ip_ranges
        /\ ip_ranges_numeric' = r.db.ip_ranges_numeric
        /\ last' = [NoCall EXCEPT !.op = "upsert", !.arg = ipRange, !.ok = r.success,
                                  !.country = countryCode,
                                  !.key = NumericKey(start, end),
                                  !.via = fault, !.err = r.err,
                                  !.failed = IF r.committed THEN 0 ELSE 1]
        /\ UNCHANGED <<mutex, procs, bolt, Cache, since>>

\* ImportFile(file)
ImportFile(file, faults, readErr) ==
    /\ nWrites < MaxWrites
    /\ \E r \in {importZoneFile(Store, file, faults, readErr)} :
        /\ nWrites' = nWrites + 1
        /\ ip_ranges' = r.db.ip_ranges
        /\ ip_ranges_numeric' = r.db.ip_ranges_numeric
        /\ last' = [NoCall EXCEPT !.op = "importFile", !.arg = file.name,
                                  !.ok = ~r.err, !.processed = r.processed,
                                  !.updated = r.updated, !.failed = r.failed,
                                  !.err = r.err, !.panic = r.panic,
                                  !.faults = faults]
        /\ UNCHANGED <<mutex, procs, bolt, Cache, since>>

\* ImportDirectory(dir)
ImportDirectory(dir, faultsOf) ==
    /\ nWrites < MaxWrites
    /\ \E r \in {importZoneDirectory(Store, dir, faultsOf)} :
        /\ nWrites' = nWrites + 1
        /\ ip_ranges' = r.db.ip_ranges
        /\ ip_ranges_numeric' = r.db.ip_ranges_numeric
        /\ last' = [NoCall EXCEPT !.op = "importDirectory", !.arg = dir.path,
                                  !.ok = ~r.err, !.processed = r.processed,
                                  !.updated = r.updated, !.failed = r.failed,
                                  !.err = r.err, !.files = r.files,
                                  !.errors = r.errors, !.faults = faultsOf]
        /\ UNCHANGED <<mutex, procs, bolt, Cache, since>>

\* VerifyNumericIndex()
VerifyIndex ==
    \E r \in {verifyRangeIndexes(Store)} :
        /\ last' = [NoCall EXCEPT !.op = "verify", !.processed = r.count,
                                  !.warnings = r.warnings]
        /\ UNCHANGED <<mutex, procs, bolt, ip_ranges, ip_ranges_numeric, Cache, nWrites, since>>

\* Ranges(country)
ListRanges(countryCode) ==
    \E r \in {listIPRangesByCountry(ip_ranges, countryCode)} :
        /\ last' = [NoCall EXCEPT !.op = "list", !.country = countryCode,
                                  !.out = r.ranges, !.err = r.err, !.ok = ~r.err]
        /\ UNCHANGED <<mutex, procs, bolt, ip_ranges, ip_ranges_numeric, Cache, nWrites, since>>

\* ---- lookupCountryByIP step by step, run by goroutine p: the cache
\* lookup under the read lock, the read transaction, the insert under
\* the write lock
\* sync.RWMutex: RLock is admitted while no writer holds the mutex, Lock
\* while nobody holds it.
CanRLock(m) == m.writer = "none"
CanLock(m) == m.readers = {} /\ m.writer = "none"

\* putCountry entering with the read lock.
PutAdmitsShared(m) == CanRLock(m)

\* putCountry: c.mutex.Lock()
PutAdmits(m) == CanLock(m)

\* The closure lookupCountryByIP passes to DB.View, on the buckets its
\* transaction sees: the numeric scan, then the textual fallback.
viewClosure(db, ip) ==
    LET num == lookupCountryByIPNumeric(db.ip_ranges_numeric,
                                        ipv4ToUint32(To4(ParseIP(ip))))
        txt == TextLoop(TextCursor(DOMAIN db.ip_ranges), db.ip_ranges, ip)
    IN  IF num.found THEN [ok |-> TRUE, country |-> num.country, via |-> "numeric"]
        ELSE IF txt.found THEN [ok |-> TRUE, country |-> txt.country, via |-> "textual"]
        ELSE [ok |-> FALSE, country |-> "", via |-> "notfound"]

\* What lookupCountryByIP returns to the goroutine with locals r.
Returned(r) ==
    [NoCall EXCEPT !.op = "resolve", !.arg = r.ip, !.country = r.country,
                   !.via = r.via, !.ok = r.via \in {"cache", "numeric", "textual"},
                   !.err = r.via \notin {"cache", "numeric", "textual"}]

\* lookupCountryByIP(ip) is called.
CallLookup(p, ip) ==
    /\ procs[p].pc = "idle"
    /\ procs' = [procs EXCEPT ![p] = [IdleProc EXCEPT !.pc = "rlock", !.ip = ip]]
    /\ UNCHANGED <<ip_ranges, ip_ranges_numeric, Cache, nWrites, since, last, mutex, bolt>>

\* getCountry: c.mutex.RLock()
CacheRLock(p) ==
    /\ procs[p].pc = "rlock"
    /\ CanRLock(mutex)
    /\ mutex' = [mutex EXCEPT !.readers = @ \cup {p}]
    /\ procs' = [procs EXCEPT ![p].pc = "read"]
    /\ UNCHANGED <<ip_ranges, ip_ranges_numeric, Cache, nWrites, since, last, bolt>>

\* getCountry: country, found := c.cache[ip]
CacheRead(p) ==
    /\ procs[p].pc = "read"
    /\ \E hit \in {getCountry(Cache, procs[p].ip)} :
           procs' = [procs EXCEPT ![p].pc = "runlock",
                                  ![p].country = hit.country,
                                  ![p].via = IF hit.found THEN "cache" ELSE ""]
    /\ UNCHANGED <<ip_ranges, ip_ranges_numeric, Cache, nWrites, since, last, mutex, bolt>>

\* getCountry: the deferred RUnlock; lookupCountryByIP returns on a hit
\* and on an address that is not IPv4, else goes on to DB.View.
CacheRUnlock(p) ==
    /\ procs[p].pc = "runlock"
    /\ mutex' = [mutex EXCEPT !.readers = @ \ {p}]
    /\ procs' = IF procs[p].via = "cache" THEN [procs EXCEPT ![p].pc = "idle"]
                ELSE IF To4(ParseIP(procs[p].ip)) = NoIP
                THEN [procs EXCEPT ![p].pc = "idle", ![p].via = "invalid"]
                ELSE [procs EXCEPT ![p].pc = "view"]
    /\ last' = IF procs'[p].pc = "idle" THEN Returned(procs'[p]) ELSE last
    /\ UNCHANGED <<ip_ranges, ip_ranges_numeric, Cache, nWrites, since, bolt>>

\* DB.View begins a read transaction on the last committed state.
BeginView(p) ==
    /\ procs[p].pc = "view"
    /\ procs' = [procs EXCEPT ![p].pc = "scan", ![p].snap = Store]
    /\ UNCHANGED <<ip_ranges, ip_ranges_numeric, Cache, nWrites, since, last, mutex, bolt>>

\* The closure runs on the transaction's buckets and the transaction ends;
\* lookupCountryByIP returns the error or goes on to putCountry.
ViewScan(p) ==
    /\ procs[p].pc = "scan"
    /\ \E r \in {viewClosure(procs[p].snap, procs[p].ip)} :
           procs' = [procs EXCEPT ![p].pc = IF r.ok THEN "lock" ELSE "idle",
                                  ![p].country = r.country,
                                  ![p].via = r.via,
                                  ![p].snap = NoDB]
    /\ last' = IF procs'[p].pc = "idle" THEN Returned(procs'[p]) ELSE last
    /\ UNCHANGED <<ip_ranges, ip_ranges_numeric, Cache, nWrites, since, mutex, bolt>>

\* putCountry: c.mutex.Lock()
CacheLock(p) ==
    /\ procs[p].pc = "lock"
    /\ PutAdmits(mutex)
    /\ mutex' = [mutex EXCEPT !.writer = p]
    /\ procs' = [procs EXCEPT ![p].pc = "reset"]
    /\ UNCHANGED <<ip_ranges, ip_ranges_numeric, Cache, nWrites, since, last, bolt>>

\* putCountry: the reset of a full cache.
PutReset(p) ==
    /\ procs[p].pc = "reset"
    /\ Cache' = IF Cache.currentSize >= Cache.maxSize
                THEN [Cache EXCEPT !.cache = EmptyBucket, !.currentSize = 0]
                ELSE Cache
    /\ procs' = [procs EXCEPT ![p].pc = "insert"]
    /\ UNCHANGED <<ip_ranges, ip_ranges_numeric, nWrites, since, last, mutex, bolt>>

\* putCountry: c.cache[ip] = country; c.currentSize++
PutInsert(p) ==
    /\ procs[p].pc = "insert"
    /\ Cache' = [Cache EXCEPT !.cache = Put(@, procs[p].ip, procs[p].country),
                              !.currentSize = @ + 1]
    /\ procs' = [procs EXCEPT ![p].pc = "unlock"]
    /\ UNCHANGED <<ip_ranges, ip_ranges_numeric, nWrites, since, last, mutex, bolt>>

\* putCountry: the deferred Unlock; lookupCountryByIP returns.
CacheUnlock(p) ==
    /\ procs[p].pc = "unlock"
    /\ mutex' = [mutex EXCEPT !.writer = "none"]
    /\ procs' = [procs EXCEPT ![p].pc = "idle"]
    /\ last' = Returned(procs'[p])
    /\ UNCHANGED <<ip_ranges, ip_ranges_numeric, Cache, nWrites, since, bolt>>

\* One step of goroutine p inside lookupCountryByIP.
LookupStep(p) ==
    \/ CacheRLock(p) \/ CacheRead(p) \/ CacheRUnlock(p)
    \/ BeginView(p) \/ ViewScan(p)
    \/ CacheLock(p) \/ PutReset(p) \/ PutInsert(p) \/ CacheUnlock(p)

\* ---- one write transaction step by step, run by goroutine w
\* Both loops in transactions of their own.
ClosureEndsPerBucket == {"text", "numeric"}

\* upsertIPRangeCountry and writeBatch: the textual and the numeric writes
\* are in one closure, which ends after the numeric writes.
ClosureEnds == {"numeric"}

\* What upsertIPRangeCountry writes, as a batch of one entry.
UpsertOp(ipRange, start, end, countryCode) ==
    [kind |-> "upsert", batch |-> (ipRange :> countryCode),
     numericBatch |-> <<[Start |-> start, End |-> end, Country |-> countryCode]>>]

\* What one writeBatch call of importZoneFile writes.
BatchOp(batch, numericBatch) ==
    [kind |-> "batch", batch |-> batch, numericBatch |-> numericBatch]

\* upsertIPRangeCountry or writeBatch is called.
CallWrite(w, op) ==
    /\ procs[w].pc = "idle"
    /\ nWrites < MaxWrites
    /\ nWrites' = nWrites + 1
    /\ procs' = [procs EXCEPT ![w] = [IdleProc EXCEPT !.pc = "begin", !.via = op.kind,
                                                      !.batch = op.batch,
                                                      !.numericBatch = op.numericBatch]]
    /\ UNCHANGED <<ip_ranges, ip_ranges_numeric, Cache, since, last, mutex, bolt>>

\* DB.Update / DB.Batch begins the write transaction: it takes the writer
\* lock and works on its own copy of the committed state.
TxBegin(w) ==
    /\ procs[w].pc = "begin"
    /\ bolt.rwlock = "none"
    /\ bolt' = [bolt EXCEPT !.rwlock = w]
    /\ procs' = [procs EXCEPT ![w].pc = "text", ![w].dirty = Store]
    /\ UNCHANGED <<ip_ranges, ip_ranges_numeric, Cache, nWrites, since, last, mutex>>

\* The writes to ip_ranges: one Put (upsert) or the textual loop (batch).
TxWriteText(w) ==
    /\ procs[w].pc = "text"
    /\ \E t \in {WriteTextual(procs[w].dirty.ip_ranges, procs[w].batch, 0).bucket} :
           /\ procs' = [procs EXCEPT ![w].pc = "numeric", ![w].dirty.ip_ranges = t]
           /\ ip_ranges' = IF "text" \in ClosureEnds THEN t ELSE ip_ranges
    /\ UNCHANGED <<ip_ranges_numeric, Cache, nWrites, since, last, mutex, bolt>>

\* The writes to ip_ranges_numeric: one Put or the numeric loop.
TxWriteNumeric(w) ==
    /\ procs[w].pc = "numeric"
    /\ \E n \in {WriteNumeric(procs[w].dirty.ip_ranges_numeric, procs[w].numericBatch)} :
           procs' = [procs EXCEPT ![w].pc = "commit", ![w].dirty.ip_ranges_numeric = n]
    /\ UNCHANGED <<ip_ranges, ip_ranges_numeric, Cache, nWrites, since, last, mutex, bolt>>

\* The closure has returned nil: the transaction commits, or the commit
\* fails and everything is rolled back; the writer lock is released.
TxCommit(w, fault) ==
    /\ procs[w].pc = "commit"
    /\ \E db \in {IF fault = "none" THEN procs[w].dirty ELSE Store} :
           /\ ip_ranges' = db.ip_ranges
           /\ ip_ranges_numeric' = db.ip_ranges_numeric
           /\ bolt' = [bolt EXCEPT !.rwlock = "none", !.history = @ \cup {db}]
    /\ procs' = [procs EXCEPT ![w].pc = "idle", ![w].dirty = NoDB]
    /\ last' = [NoCall EXCEPT !.op = procs[w].via, !.via = fault,
                              !.ok = (fault = "none"), !.err = (fault # "none")]
    /\ UNCHANGED <<Cache, nWrites, since, mutex>>

\* One step of goroutine w inside its write transaction.
WriteStep(w) ==
    \/ TxBegin(w) \/ TxWriteText(w) \/ TxWriteNumeric(w)
    \/ \E fault \in {"none", "commit"} : TxCommit(w, fault)

\* ---- opening and closing the database file
\* The file as bbolt.Open finds it: whether it exists, the buckets it
\* has, and their contents (a bucket it has not is empty here).
DBFile(db, b) ==
    [file |-> b.file, buckets |-> b.buckets, ip_ranges |-> db.ip_ranges,
     ip_ranges_numeric |-> db.ip_ranges_numeric,
     ip_prefix_index |-> b.ip_prefix_index]

\* A bucket created anew whether it exists or not.
CreateBucketAnew(f, name) ==
    [f EXCEPT !.buckets = @ \cup {name}, ![name] = EmptyBucket]

\* tx.CreateBucketIfNotExists(name): an existing bucket is left as it is.
CreateBucketIfNotExists(f, name) ==
    IF name \in f.buckets THEN f
    ELSE [f EXCEPT !.buckets = @ \cup {name}, ![name] = EmptyBucket]

\* ensureBuckets: the three buckets in one Update, which may fail.
ensureBuckets(f, fault) ==
    IF fault = "update" THEN [err |-> TRUE, f |-> f]
    ELSE [err |-> FALSE,
          f |-> CreateBucketIfNotExists(
                    CreateBucketIfNotExists(
                        CreateBucketIfNotExists(f, "ip_ranges"),
                        "ip_ranges_numeric"),
                    "ip_prefix_index")]

\* openDatabase: bbolt.Open fails on an error of its own ("open") and on
\* a read-only open of a file that does not exist, and creates the file
\* otherwise; a read-write open then ensures the buckets and closes the
\* database again when that fails.
openDatabase(f, readOnly, fault) ==
    IF fault = "open" \/ (readOnly /\ ~f.file)
    THEN [ok |-> FALSE, f |-> f, open |-> "closed"]
    ELSE IF readOnly
    THEN [ok |-> TRUE, f |-> f, open |-> "ro"]
    ELSE LET made == ensureBuckets([f EXCEPT !.file = TRUE], fault)
         IN  IF made.err
             THEN [ok |-> FALSE, f |-> made.f, open |-> "closed"]
             ELSE [ok |-> TRUE, f |-> made.f, open |-> "rw"]

\* OpenDatabase(path, readOnly)
OpenDatabase(readOnly, fault) ==
    /\ bolt.open = "closed"
    /\ \E r \in {openDatabase(DBFile(Store, bolt), readOnly, fault)} :
           /\ ip_ranges' = r.f.ip_ranges
           /\ ip_ranges_numeric' = r.f.ip_ranges_numeric
           /\ bolt' = [bolt EXCEPT !.open = r.open, !.file = r.f.file,
                                   !.buckets = r.f.buckets,
                                   !.ip_prefix_index = r.f.ip_prefix_index]
           /\ last' = [NoCall EXCEPT !.op = "open", !.ok = r.ok, !.err = ~r.ok,
                                     !.via = IF readOnly THEN "ro" ELSE "rw"]
    /\ UNCHANGED <<Cache, nWrites, since, mutex, procs>>

\* Close()
CloseDatabase ==
    /\ bolt.open # "closed"
    /\ bolt' = [bolt EXCEPT !.open = "closed"]
    /\ last' = [NoCall EXCEPT !.op = "close"]
    /\ UNCHANGED <<ip_ranges, ip_ranges_numeric, Cache, nWrites, since, mutex, procs>>

\* ---- the range codec called on its own (ParseRange, the key codec and
\* the membership test, as the unit tests call them)
\* Words at the edges of the word and with one bit in each byte.
OrderWords == {0, 1, ByteBase, ByteBase ^ 2, ByteBase ^ 3, MaxWord - 1, MaxWord}

\* Every IPv4 address with every prefix length, one past the width included.
CidrTexts == {<<Ip4(a), Slash, Num(p)>> : a \in 0..MaxWord, p \in 0..(WordBits + 1)}

EdgeCidrTexts == {<<Ip4(a), Slash, Num(p)>> : a \in OrderWords, p \in 0..WordBits}

PairTexts == {<<Ip4(a), Dash, Ip4(b)>> : a \in OrderWords, b \in OrderWords}

\* Free text, a lone address, broken prefixes, IPv6 and IPv4-mapped
\* networks and addresses, three parts, and parts with spaces.
OddTexts ==
    {Garbage, <<Ip4(1)>>, <<Ip4(1), Slash, Word>>, <<Ip4(1), Slash>>,
     CidrV6, <<Ip6, Slash, Num(WordBits)>>,
     <<Ip4in6(MaxWord), Slash, Num(4 * WordBits - 1)>>,
     <<Ip4in6(1), Dash, Ip4in6(2)>>, <<Ip6, Dash, Ip4(1)>>,
     <<Ip4(1), Dash, Ip4(2), Dash, Ip4(3)>>, Spaced,
     <<Sp, Ip4(1), Slash, Num(WordBits)>>, <<Ip4(1), Dash, Word>>}

ParseTexts == CidrTexts \cup PairTexts \cup OddTexts

ContainsTexts == EdgeCidrTexts \cup PairTexts \cup OddTexts

\* Every sequence of four bytes.
ByteStrings == [1..BytesPerWord -> 0..(ByteBase - 1)]

\* encodeUint32BE(b, v), then decodeUint32BE(b).
EncodeWord(v) ==
    \E b \in {encodeUint32BE(v)} :
        /\ last' = [NoCall EXCEPT !.op = "encode", !.arg = <<v>>, !.key = b,
                                  !.start = decodeUint32BE(b)]
        /\ UNCHANGED <<mutex, procs, bolt, ip_ranges, ip_ranges_numeric, Cache, nWrites, since>>

\* decodeUint32BE(b), then encodeUint32BE(out, v).
DecodeBytes(b) ==
    \E v \in {decodeUint32BE(b)} :
        /\ last' = [NoCall EXCEPT !.op = "decode", !.key = b, !.start = v,
                                  !.out = encodeUint32BE(v)]
        /\ UNCHANGED <<mutex, procs, bolt, ip_ranges, ip_ranges_numeric, Cache, nWrites, since>>

\* The keys of two ranges as writeBatch builds them, and bytes.Compare on
\* them as the cursor orders them.
CompareKeys(s1, e1, s2, e2) ==
    \E k1 \in {NumericKey(s1, e1)}, k2 \in {NumericKey(s2, e2)} :
        /\ last' = [NoCall EXCEPT !.op = "compare", !.arg = <<s1, e1, s2, e2>>,
                                  !.key = k1, !.out = k2, !.less = KeyLess(k1, k2)]
        /\ UNCHANGED <<mutex, procs, bolt, ip_ranges, ip_ranges_numeric, Cache, nWrites, since>>

\* ParseRange(rangeStr)
ParseRange(ipRange) ==
    \E r \in {parseIPRange(ipRange)} :
        /\ last' = [NoCall EXCEPT !.op = "parse", !.arg = ipRange, !.ok = r.ok,
                                  !.start = r.start, !.end = r.end, !.err = ~r.ok]
        /\ UNCHANGED <<mutex, procs, bolt, ip_ranges, ip_ranges_numeric, Cache, nWrites, since>>

\* ipv4InRange(ip, ipRange)
ContainsAddress(ip, ipRange) ==
    /\ last' = [NoCall EXCEPT !.op = "contains", !.arg = ipRange, !.out = ip,
                              !.ok = ipv4InRange(ip, ipRange)]
    /\ UNCHANGED <<mutex, procs, bolt, ip_ranges, ip_ranges_numeric, Cache, nWrites, since>>

\* Bounds given to an upsert of ipRange: those of parseIPRange when it
\* accepts the text, or any of FreeBounds.
ParsedBounds(ipRange) ==
    LET r == parseIPRange(ipRange)
    IN  IF r.ok THEN {<<r.start, r.end>>} ELSE {}

\* The numeric key of the block CidrA denotes.
KeyOfCidrA == NumericKey(parseIPRange(CidrA).start, parseIPRange(CidrA).end)

\* ---- the store alone: every write operation, any bounds, any fault
DoUpsert ==
    \E ipRange \in UpsertTexts, countryCode \in Countries, fault \in Faults :
        \E b \in ParsedBounds(ipRange) \cup FreeBounds :
            UpsertRange(ipRange, b[1], b[2], countryCode, fault)

\* An upsert whose bounds are those ParseRange gives for its text.
DoUpsertParsed ==
    \E ipRange \in UpsertTexts, countryCode \in Countries, fault \in Faults :
        \E b \in ParsedBounds(ipRange) :
            UpsertRange(ipRange, b[1], b[2], countryCode, fault)

DoImportFile ==
    \E file \in Files, faults \in FaultSeqs, readErr \in BOOLEAN :
        ImportFile(file, faults, readErr)

\* The transactions of at most one file of the directory fail.
DoImportDirectory ==
    \E dir \in Directories, faults \in FaultSeqs :
        \E j \in 1..Len(dir.files) :
            ImportDirectory(dir, [i \in 1..Len(dir.files) |->
                                     IF i = j THEN faults ELSE <<>>])

NextStore == DoUpsert \/ DoImportFile \/ DoImportDirectory \/ VerifyIndex

SpecStore == Init /\ [][NextStore]_vars

NextParsed == DoUpsertParsed \/ DoImportFile \/ DoImportDirectory

SpecParsed == Init /\ [][NextParsed]_vars

\* ---- the whole system from construction: writes and lookups interleaved
SysQueries == {<<Ip4(2)>>, <<Ip4in6(2)>>, <<Word>>}

DoResolve == \E ip \in SysQueries : Resolve(ip)

SysUpsert ==
    \E countryCode \in Countries, fault \in {"none", "commit"} :
        \E b \in ParsedBounds(RangeA) \cup FreeBounds :
            UpsertRange(RangeA, b[1], b[2], countryCode, fault)

SysImportFile == \E file \in Files : ImportFile(file, <<>>, FALSE)

SysImportDirectory ==
    \E dir \in Directories :
        ImportDirectory(dir, [i \in 1..Len(dir.files) |-> <<>>])

\* "IT" is a country no write of this specification stores.
DoList == \E countryCode \in Countries \cup {"IT"} : ListRanges(countryCode)

Next == DoResolve \/ SysUpsert \/ SysImportFile \/ SysImportDirectory \/ DoList

Spec == Init /\ [][Next]_vars

\* ---- lookups over a given store content
InitLookup ==
    /\ \E T \in SUBSET DOMAIN LookupTexts, K \in SUBSET DOMAIN LookupKeys :
          /\ (T = {}) <=> (K = {})
          /\ ip_ranges = Restrict(LookupTexts, T)
          /\ ip_ranges_numeric = Restrict(LookupKeys, K)
    /\ Cache = newIPCache(MaxCacheSize)
    /\ nWrites = 0
    /\ since = EmptyBucket
    /\ last = NoCall
    /\ Quiet

LookupAny == \E ip \in Queries : Resolve(ip)

NextLookup == LookupAny

SpecLookup == InitLookup /\ [][NextLookup]_vars

\* ---- the numeric scan alone over a given numeric bucket
InitScan ==
    /\ \E K \in SUBSET DOMAIN ScanKeys :
          /\ ip_ranges_numeric = Restrict(ScanKeys, K)
          /\ ip_ranges = Restrict(LookupTexts, IF K = {} THEN {} ELSE {CidrA})
    /\ Cache = newIPCache(MaxCacheSize)
    /\ nWrites = 0
    /\ since = EmptyBucket
    /\ last = NoCall
    /\ Quiet

ScanAny == \E ipNum \in 0..7 : NumericLookup(ipNum)

NextScan == ScanAny

SpecScan == InitScan /\ [][NextScan]_vars

\* ---- the cache under direct inserts and lookups, over a loaded store
InitCache ==
    /\ ip_ranges = Restrict(LookupTexts, {CidrA})
    /\ ip_ranges_numeric = Restrict(LookupKeys, {NumericKey(0, 3), NumericKey(5, 7)})
    /\ \E maxSize \in 0..MaxCacheSize : Cache = newIPCache(maxSize)
    /\ nWrites = 0
    /\ since = EmptyBucket
    /\ last = NoCall
    /\ Quiet

DoPut == \E ip \in Queries \ {<<Word>>}, country \in Countries : PutCountry(ip, country)

NextCache == DoPut \/ LookupAny

SpecCache == InitCache /\ [][NextCache]_vars

\* ---- imports alone, over an empty store or one an upsert has written
InitImport ==
    /\ \/ ip_ranges = EmptyBucket /\ ip_ranges_numeric = EmptyBucket
       \/ /\ ip_ranges = (CidrA :> "IT")
          /\ ip_ranges_numeric = (KeyOfCidrA :> "IT")
    /\ Cache = newIPCache(MaxCacheSize)
    /\ nWrites = 0
    /\ since = EmptyBucket
    /\ last = NoCall
    /\ Quiet

ImpFile ==
    \E file \in ImportFiles, faults \in FaultSeqs, readErr \in BOOLEAN :
        ImportFile(file, faults, readErr)

ImpDirectory ==
    \E dir \in ImportDirectories, faults \in FaultSeqs :
        \E j \in 1..Len(dir.files) :
            ImportDirectory(dir, [i \in 1..Len(dir.files) |->
                                     IF i = j THEN faults ELSE <<>>])

NextImport == ImpFile \/ ImpDirectory

SpecImport == InitImport /\ [][NextImport]_vars

\* ---- the range codec alone: its functions are pure, so a behaviour is
\* one call on one input
EncodeAny == last = NoCall /\ \E v \in 0..MaxWord : EncodeWord(v)

DecodeAny == last = NoCall /\ \E b \in ByteStrings : DecodeBytes(b)

CompareAny ==
    /\ last = NoCall
    /\ \E s1 \in OrderWords, e1 \in OrderWords, s2 \in OrderWords, e2 \in OrderWords :
           CompareKeys(s1, e1, s2, e2)

ParseAny == last = NoCall /\ \E ipRange \in ParseTexts : ParseRange(ipRange)

ContainsAny ==
    /\ last = NoCall
    /\ \E a \in 0..MaxWord, ipRange \in ContainsTexts :
           ContainsAddress(<<Ip4(a)>>, ipRange)

NextCodec == EncodeAny \/ DecodeAny \/ CompareAny \/ ParseAny \/ ContainsAny

SpecCodec == Init /\ [][NextCodec]_vars

\* ---- concurrent lookups over a loaded store
ConcQueries == {<<Ip4(2)>>, <<Ip4(5)>>, <<Word>>}

InitCacheConc ==
    /\ ip_ranges = Restrict(LookupTexts, {CidrA})
    /\ ip_ranges_numeric = Restrict(LookupKeys, {NumericKey(0, 3), NumericKey(5, 7)})
    /\ \E maxSize \in 1..MaxCacheSize : Cache = newIPCache(maxSize)
    /\ nWrites = 0
    /\ since = EmptyBucket
    /\ last = NoCall
    /\ Quiet

ConcCall == \E p \in Readers, ip \in ConcQueries : CallLookup(p, ip)

ConcStep == \E p \in Readers : LookupStep(p)

NextCacheConc == ConcCall \/ ConcStep

SpecCacheConc == InitCacheConc /\ [][NextCacheConc]_vars

\* ---- lookups running while upserts and import batches are written
TxQueries == {<<Ip4(2)>>, <<Ip4(5)>>}

\* Upserts of one range under two countries and a batch of two other
\* ranges, each with the bounds parseIPRange gives for its text.
TxOps ==
    {UpsertOp(RangeA, 0, 3, "FR"), UpsertOp(RangeA, 0, 3, "DE"),
     BatchOp((RangeB :> "DE") @@ (<<Ip4(5), Dash, Ip4(7)>> :> "DE"),
             <<[Start |-> 2, End |-> 5, Country |-> "DE"],
               [Start |-> 5, End |-> 7, Country |-> "DE"]>>)}

InitTx ==
    /\ ip_ranges = EmptyBucket
    /\ ip_ranges_numeric = EmptyBucket
    /\ Cache = newIPCache(1)
    /\ nWrites = 0
    /\ since = EmptyBucket
    /\ last = NoCall
    /\ Quiet

TxLookupCall == \E ip \in TxQueries : CallLookup("r1", ip)

TxLookupStep == LookupStep("r1")

TxWriteCall == \E w \in Writers, op \in TxOps : CallWrite(w, op)

TxWriteStep == \E w \in Writers : WriteStep(w)

NextTx == TxLookupCall \/ TxLookupStep \/ TxWriteCall \/ TxWriteStep

SpecTx == InitTx /\ [][NextTx]_vars

\* ---- the database file opened, written and closed again
\* No file yet.
InitOpen ==
    /\ ip_ranges = EmptyBucket
    /\ ip_ranges_numeric = EmptyBucket
    /\ Cache = newIPCache(MaxCacheSize)
    /\ nWrites = 0
    /\ since = EmptyBucket
    /\ last = NoCall
    /\ mutex = Unlocked
    /\ procs = [p \in Procs |-> IdleProc]
    /\ bolt = [OpenedRW EXCEPT !.open = "closed", !.file = FALSE, !.buckets = {}]

OpenAny ==
    \E readOnly \in BOOLEAN, fault \in {"none", "open", "update"} :
        OpenDatabase(readOnly, fault)

\* A write transaction begins only on a database opened read-write.
OpenUpsert ==
    \E ipRange \in UpsertTexts, countryCode \in Countries :
        \E b \in ParsedBounds(ipRange),
           fault \in IF bolt.open = "rw" THEN {"none", "commit"} ELSE {"begin"} :
            UpsertRange(ipRange, b[1], b[2], countryCode, fault)

OpenImportFile ==
    /\ bolt.open = "rw"
    /\ \E file \in Files : ImportFile(file, <<>>, FALSE)

NextOpen == OpenAny \/ CloseDatabase \/ OpenUpsert \/ OpenImportFile

SpecOpen == InitOpen /\ [][NextOpen]_vars

\* ---- imports of files whose names give no country code
\* A file without any "." in its name, and one whose name begins with ".".
FileNoDot == [name |-> <<"FR">>, lines |-> <<RangeA>>]

BadNameFiles == {FileNoDot, FileNoCode}

ImpBadName ==
    \E file \in BadNameFiles, faults \in FaultSeqs, readErr \in BOOLEAN :
        ImportFile(file, faults, readErr)

NextNames == ImpFile \/ ImpBadName

SpecNames == InitImport /\ [][NextNames]_vars

\* ---- imports under builds with different batch sizes
\* Lines of the files: two texts with the same numeric key, a third
\* range, and a line that does not parse.
BatchLines == {RangeA, CidrA, RangeB, Garbage}

MaxLines == 2 * batchSize

RECURSIVE SeqsUpTo(_, _)
SeqsUpTo(S, n) ==
    IF n = 0 THEN {<<>>}
    ELSE LET shorter == SeqsUpTo(S, n - 1)
         IN  shorter \cup {Append(q, x) : q \in shorter, x \in S}

BatchFiles == {[name |-> <<"FR", ".", "zone">>, lines |-> ls] :
                  ls \in SeqsUpTo(BatchLines, MaxLines)}

BatchSizes == 1..(batchSize + 1)

\* ImportFile of a build whose batchSize constant is size, without fault.
ImportFileSized(file, size) ==
    /\ last = NoCall
    /\ \E r \in {importZoneFileSized(Store, file, <<>>, FALSE, size)} :
        /\ nWrites' = nWrites + 1
        /\ ip_ranges' = r.db.ip_ranges
        /\ ip_ranges_numeric' = r.db.ip_ranges_numeric
        /\ last' = [NoCall EXCEPT !.op = "importFileSized", !.arg = file.name,
                                  !.ok = ~r.err, !.processed = r.processed,
                                  !.updated = r.updated, !.failed = r.failed,
                                  !.err = r.err, !.panic = r.panic,
                                  !.lines = file.lines, !.size = size]
        /\ UNCHANGED <<mutex, procs, bolt, Cache, since>>

InitBatch ==
    /\ \/ ip_ranges = EmptyBucket /\ ip_ranges_numeric = EmptyBucket
       \/ /\ ip_ranges = (CidrA :> "IT")
          /\ ip_ranges_numeric = (KeyOfCidrA :> "IT")
       \/ /\ ip_ranges = (RangeB :> "FR")
          /\ ip_ranges_numeric = (NumericKey(2, 5) :> "FR")
    /\ Cache = newIPCache(MaxCacheSize)
    /\ nWrites = 0
    /\ since = EmptyBucket
    /\ last = NoCall
    /\ Quiet

ImpSized == \E file \in BatchFiles, size \in BatchSizes : ImportFileSized(file, size)

NextBatch == ImpSized

SpecBatch == InitBatch /\ [][NextBatch]_vars

\* ---- lookups over a store written with parsed bounds only
\* Range texts on which parseIPRange and ipv4InRange differ, next to the
\* plain ones: spaces around the dash, an IPv6 block, an IPv4-mapped
\* block, a pair of IPv4-mapped addresses.
MappedCidr == <<Ip4in6(5), Slash, Num(4 * WordBits - 1)>>
MappedPair == <<Ip4in6(4), Dash, Ip4in6(5)>>
FallbackTexts == UpsertTexts \cup {Spaced, CidrV6, MappedCidr, MappedPair}

FallbackQueries == {<<Ip4(0)>>, <<Ip4(4)>>, <<Ip4(5)>>, <<Ip4in6(5)>>, <<Ip4(7)>>}

FallbackUpsert ==
    \E ipRange \in FallbackTexts, countryCode \in Countries :
        \E b \in ParsedBounds(ipRange) :
            UpsertRange(ipRange, b[1], b[2], countryCode, "none")

FallbackImport == \E file \in Files, faults \in FaultSeqs : ImportFile(file, faults, FALSE)

FallbackResolve == \E ip \in FallbackQueries : Resolve(ip)

NextFallback == FallbackUpsert \/ FallbackImport \/ FallbackResolve

\* The cache holds one entry, so that lookups keep reading the store.
InitFallback ==
    /\ ip_ranges = EmptyBucket
    /\ ip_ranges_numeric = EmptyBucket
    /\ Cache = newIPCache(1)
    /\ nWrites = 0
    /\ since = EmptyBucket
    /\ last = NoCall
    /\ Quiet

SpecFallback == InitFallback /\ [][NextFallback]_vars

\* ---- directory imports over files whose read fails
\* Directories with a file that is read to its last line and then gives
\* a read error, in first or in last position, next to sound ones.
DirTornFirst == [path |-> <<"torn">>, files |-> <<FileDE, FileFR>>,
                 unreadable |-> {1}]
DirTornLast == [path |-> <<"worn">>, files |-> <<FileDE, FileFR>>,
                unreadable |-> {2}]
TotalsDirectories == {DirTornFirst, DirTornLast, DirZones, DirMixed}

ImpTotals ==
    \E dir \in TotalsDirectories, faults \in FaultSeqs :
        \E j \in 1..Len(dir.files) :
            ImportDirectory(dir, [i \in 1..Len(dir.files) |->
                                     IF i = j THEN faults ELSE <<>>])

NextTotals == ImpTotals

SpecTotals == InitImport /\ [][NextTotals]_vars

\* ======================================================================
\* Properties
\* ======================================================================

\* The address a well-formed IPv4 query string denotes (dotted or
\* IPv4-mapped literal); -1 for any other string.
QueryAddr(q) ==
    IF Len(q) = 1 /\ q[1].t \in {"ip4", "ip4in6"} THEN q[1].v ELSE -1

WellFormed(q) == QueryAddr(q) >= 0

\* The word four big-endian bytes denote, as a sum of powers.
WordOf(b) ==
    b[1] * ByteBase ^ 3 + b[2] * ByteBase ^ 2 + b[3] * ByteBase + b[4]

BoundsOfKey(k) ==
    [start |-> WordOf(SubSeq(k, 1, 4)), end |-> WordOf(SubSeq(k, 5, 8))]

\* The IPv4 range a range text of one of the two documented forms denotes
\* ("A-B" with two dotted IPv4 addresses, or an IPv4 "A/N"); other texts
\* denote no range.
RangeOf(x) ==
    IF Len(x) = 3 /\ x[1].t = "ip4" /\ x[2] = Dash /\ x[3].t = "ip4"
    THEN [ok |-> TRUE, start |-> x[1].v, end |-> x[3].v]
    ELSE IF /\ Len(x) = 3 /\ x[1].t = "ip4" /\ x[2] = Slash
            /\ x[3].t = "num" /\ x[3].v <= WordBits
    THEN LET size == 2 ^ (WordBits - x[3].v)
             start == (x[1].v \div size) * size
         IN  [ok |-> TRUE, start |-> start, end |-> start + size - 1]
    ELSE [ok |-> FALSE, start |-> 0, end |-> 0]

NumericHolders(t) ==
    {k \in DOMAIN ip_ranges_numeric :
        BoundsOfKey(k).start <= t /\ t <= BoundsOfKey(k).end}

TextHolders(t) ==
    {x \in DOMAIN ip_ranges :
        RangeOf(x).ok /\ RangeOf(x).start <= t /\ t <= RangeOf(x).end}

BoundsLess(a, b) ==
    \/ BoundsOfKey(a).start < BoundsOfKey(b).start
    \/ BoundsOfKey(a).start = BoundsOfKey(b).start /\ BoundsOfKey(a).end < BoundsOfKey(b).end

\* The scan of the whole numeric bucket without early exit: the first
\* entry, in (start, end) order, that contains t.
FullScan(t) ==
    LET m == NumericHolders(t)
    IN  IF m = {} THEN [found |-> FALSE, key |-> <<>>]
        ELSE [found |-> TRUE,
              key |-> CHOOSE k \in m : \A j \in m \ {k} : BoundsLess(k, j)]

\* C2: the numeric scan with early exit finds a match exactly when the
\* scan of the whole numeric bucket does, and it returns the same entry,
\* whatever the bucket holds (inverted entries included).
C2_EarlyExitSkipsNoMatch ==
    last.op = "scan" =>
        LET full == FullScan(last.arg[1])
        IN  /\ last.ok = full.found
            /\ full.found => /\ last.key = full.key
                             /\ last.country = ip_ranges_numeric[full.key]

\* A scan that passed an inverted entry whose start does not exceed the
\* target, found its match behind it, and left entries unexamined.
C2_Witness ==
    /\ last.op = "scan" /\ last.ok
    /\ \E k \in DOMAIN ip_ranges_numeric :
          /\ BoundsOfKey(k).start > BoundsOfKey(k).end
          /\ BoundsLess(k, last.key)
    /\ last.processed < Cardinality(DOMAIN ip_ranges_numeric)

\* The numeric key parseIPRange gives for a range text.
KeyOfText(x) == NumericKey(parseIPRange(x).start, parseIPRange(x).end)

\* C3 as stated: every textual entry has a numeric entry at the key of its
\* parsed bounds with the same country, and every numeric entry has a
\* textual entry with the same bounds and the same country.
C3_Original ==
    /\ \A x \in DOMAIN ip_ranges :
          /\ parseIPRange(x).ok
          /\ KeyOfText(x) \in DOMAIN ip_ranges_numeric
          /\ ip_ranges_numeric[KeyOfText(x)] = ip_ranges[x]
    /\ \A k \in DOMAIN ip_ranges_numeric :
          \E x \in DOMAIN ip_ranges :
              parseIPRange(x).ok /\ KeyOfText(x) = k /\ ip_ranges[x] = ip_ranges_numeric[k]

\* C3 amended: every textual entry has a numeric entry at the key of its
\* parsed bounds (whose country may be that of another text with the same
\* bounds), and every numeric entry has a textual entry with the same
\* bounds and the same country.
C3_IndexesConsistent ==
    /\ \A x \in DOMAIN ip_ranges :
          /\ parseIPRange(x).ok
          /\ KeyOfText(x) \in DOMAIN ip_ranges_numeric
    /\ \A k \in DOMAIN ip_ranges_numeric :
          \E x \in DOMAIN ip_ranges :
              parseIPRange(x).ok /\ KeyOfText(x) = k /\ ip_ranges[x] = ip_ranges_numeric[k]

\* Two range texts with the same parsed bounds stored with different
\* countries.
C3_Witness ==
    \E x, y \in DOMAIN ip_ranges :
        /\ x # y /\ KeyOfText(x) = KeyOfText(y)
        /\ ip_ranges[x] # ip_ranges[y]
        /\ ip_ranges_numeric[KeyOfText(x)] = ip_ranges[y]

\* C4 as stated, on the call that just returned: when the upsert reports
\* no error both entries hold the country, and success is true exactly
\* when the transaction was committed.
C4_Original ==
    last.op = "upsert" =>
        /\ ~last.err => /\ last.arg \in DOMAIN ip_ranges
                        /\ ip_ranges[last.arg] = last.country
                        /\ last.key \in DOMAIN ip_ranges_numeric
                        /\ ip_ranges_numeric[last.key] = last.country
        /\ last.ok <=> (last.failed = 0)

\* C5: a store write leaves the cache as it is, and a lookup of a cached
\* query returns the cached country whatever the store holds by then.
C5_StaleCache ==
    [][/\ last'.op \in {"upsert", "importFile", "importDirectory"} => Cache' = Cache
       /\ (last'.op = "resolve" /\ last'.arg \in DOMAIN Cache.cache) =>
             /\ last'.ok
             /\ last'.country = Cache.cache[last'.arg]
             /\ Cache' = Cache]_vars

\* A lookup served by the cache with a country the store no longer gives.
C5_Witness ==
    /\ last.op = "resolve" /\ last.via = "cache"
    /\ LET fresh == lookupCountryByIP(newIPCache(1), ip_ranges, ip_ranges_numeric, last.arg)
       IN  fresh.ok /\ fresh.country # last.country

\* C6 as stated: the cache never holds more entries than maxSize.
C6_Original == Cardinality(DOMAIN Cache.cache) <= Cache.maxSize

\* The step is an insert into the cache of key last'.arg.
InsertStep ==
    \/ last'.op = "put"
    \/ last'.op = "resolve" /\ last'.via \in {"numeric", "textual"}

\* C7 as stated: an insert into a cache holding maxSize entries leaves
\* exactly the new entry; an insert into a cache holding fewer removes
\* no entry.
C7_Original ==
    [][InsertStep =>
          /\ Cardinality(DOMAIN Cache.cache) >= Cache.maxSize =>
                /\ DOMAIN Cache'.cache = {last'.arg}
                /\ Cache'.cache[last'.arg] = last'.country
          /\ Cardinality(DOMAIN Cache.cache) < Cache.maxSize =>
                DOMAIN Cache.cache \subseteq DOMAIN Cache'.cache]_vars

\* C8: a cached key has seen fewer than maxSize inserts of other keys
\* since it was inserted: after the maxSize-th such insert it is a miss.
C8_MissAfterNInserts ==
    \A k \in DOMAIN Cache.cache : since[k] = 0 \/ since[k] < Cache.maxSize

\* A key that survived maxSize - 1 inserts of other keys.
C8_Witness ==
    /\ Cache.maxSize >= 2
    /\ \E k \in DOMAIN Cache.cache : since[k] = Cache.maxSize - 1

\* C9: right after a successful lookup, the cache holds the query string
\* with the returned country.
C9_SuccessIsCached ==
    (last.op = "resolve" /\ last.ok) =>
        /\ last.arg \in DOMAIN Cache.cache
        /\ Cache.cache[last.arg] = last.country

\* A successful lookup of an IPv4-mapped query string, read from the
\* store, while the dotted form of the same address is not cached.
C9_Witness ==
    /\ last.op = "resolve" /\ last.ok /\ last.via # "cache"
    /\ last.arg = <<Ip4in6(2)>>
    /\ <<Ip4(2)>> \notin DOMAIN Cache.cache

\* C10: a failed lookup changes neither the cache nor the buckets; a cache
\* entry appears or changes only in a successful lookup of its key, with
\* the returned country; every cache key is a well-formed IPv4 string.
C10_OnlySuccessesCached ==
    [][/\ (last'.op = "resolve" /\ ~last'.ok) =>
             UNCHANGED <<Cache, ip_ranges, ip_ranges_numeric>>
       /\ \A q \in DOMAIN Cache'.cache :
             /\ WellFormed(q)
             /\ (q \notin DOMAIN Cache.cache \/ Cache.cache[q] # Cache'.cache[q]) =>
                   /\ last'.op = "resolve" /\ last'.ok
                   /\ last'.arg = q /\ last'.country = Cache'.cache[q]]_vars

\* A lookup that failed (malformed or not found) while the cache held
\* entries.
C10_Witness ==
    /\ last.op = "resolve" /\ ~last.ok
    /\ DOMAIN Cache.cache # {}

\* C11: an import of the file the previous import read, both without a
\* failed transaction or read error, leaves both buckets as they are and
\* returns updated = 0 with the processed count of the first.
C11_ImportTwice ==
    [][(/\ last.op = "importFile" /\ last'.op = "importFile"
        /\ last'.arg = last.arg
        /\ ~last.err /\ ~last'.err
        /\ last.failed = 0 /\ last'.failed = 0) =>
          /\ UNCHANGED <<ip_ranges, ip_ranges_numeric>>
          /\ last'.updated = 0
          /\ last'.processed = last.processed]_vars

\* A second import in a row that counted lines and updated nothing.
C11_Witness ==
    /\ last.op = "importFile" /\ nWrites = 2
    /\ last.updated = 0 /\ last.processed > 0
    /\ last.failed = 0 /\ ~last.err
    /\ DOMAIN ip_ranges # {}

\* The file of ImportFiles with the given name.
FileOf(name) == CHOOSE f \in ImportFiles : f.name = name

\* The lines of a file that, trimmed, are not empty, do not begin with "#"
\* or "//", and are not classified private or local.
CountedLines(file) ==
    {i \in 1..Len(file.lines) :
        LET t == TrimSpace(file.lines[i])
        IN  /\ t # <<>>
            /\ t[1] # Hash
            /\ ~(Len(t) >= 2 /\ t[1] = Slash /\ t[2] = Slash)
            /\ ~isPrivateOrLocalCIDR(t)}

\* The counted lines that parse as a range.
ParsedLines(file) ==
    {i \in CountedLines(file) : parseIPRange(TrimSpace(file.lines[i])).ok}

StartOfText(x) ==
    ParseIP(TrimSpace(IF StrContains(x, Slash) THEN StrSplit(x, Slash)[1]
                      ELSE StrSplit(x, Dash)[1]))

StartsPrivate(x) == StartOfText(x) # NoIP /\ IsPrivateOrLocalIP(StartOfText(x))

\* C13 as stated: after imports, no stored range text, in CIDR or in
\* start-end form, starts at a private, loopback or link-local address,
\* and no numeric key of such a text is stored.
C13_Original ==
    \A x \in DOMAIN ip_ranges :
        /\ ~StartsPrivate(x)
        /\ \A file \in ImportFiles : \A i \in 1..Len(file.lines) :
              StartsPrivate(TrimSpace(file.lines[i])) =>
                  KeyOfText(TrimSpace(file.lines[i])) \notin DOMAIN ip_ranges_numeric

\* C14 as stated: the updated count an import returns is the number of
\* textual entries the import created or changed in the store; what a
\* failed transaction tried to write is not counted.
C14_Original ==
    [][last'.op = "importFile" =>
          last'.updated =
              Cardinality({x \in DOMAIN ip_ranges' :
                              x \notin DOMAIN ip_ranges \/ ip_ranges[x] # ip_ranges'[x]})]_vars

\* C15 as stated: an import with a failed write transaction returns an
\* error.
C15_Original == (last.op = "importFile" /\ last.failed > 0) => last.err

\* The directory of ImportDirectories with the given path.
DirOf(path) == CHOOSE d \in ImportDirectories : d.path = path

ReservedName == <<"zz", ".", "zone">>

\* Positions of the files of a directory that end in ".zone" and are not
\* the file named zz.zone.
ZoneFilesOf(dir) ==
    {i \in 1..Len(dir.files) :
        MatchesZone(dir.files[i].name) /\ dir.files[i].name # ReservedName}

\* Sum over the positions in S of the processed count of each file (0 for
\* a file whose import fails for lack of a country code).
RECURSIVE SumProcessed(_, _)
SumProcessed(dir, S) ==
    IF S = {} THEN 0
    ELSE LET i == CHOOSE j \in S : TRUE
             f == dir.files[i]
         IN  (IF CountryOfName(f.name).code = "" THEN 0
              ELSE Cardinality(CountedLines(f)))
             + SumProcessed(dir, S \ {i})

\* C16 as stated: a directory import calls importFile on exactly the zone
\* files other than the one named zz.zone, whatever the names and the
\* path, and returns the sum of their processed counts.
C16_Original ==
    last.op = "importDirectory" =>
        LET dir == DirOf(last.arg)
        IN  /\ {last.files[i] : i \in 1..Len(last.files)}
                  = {dir.files[i].name : i \in ZoneFilesOf(dir)}
            /\ last.processed = SumProcessed(dir, ZoneFilesOf(dir))

\* C17: a directory import returns no error, and importFile has been
\* called on every zone file the exclusion test lets through, those after
\* a file whose import failed included; the files that did not fail are
\* counted.
C17_PartialFailure ==
    last.op = "importDirectory" =>
        LET dir == DirOf(last.arg)
            through == {i \in 1..Len(dir.files) :
                       /\ MatchesZone(dir.files[i].name)
                       /\ ~ContainsReserved(dir.path \o <<"/">> \o dir.files[i].name)}
        IN  /\ ~last.err
            /\ last.files = [n \in 1..Cardinality(through) |->
                                dir.files[CHOOSE i \in through :
                                    Cardinality({j \in through : j < i}) = n - 1].name]
            /\ last.processed = SumProcessed(dir, through)

\* A directory import where a file failed and a later file was imported
\* and counted.
C17_Witness ==
    /\ last.op = "importDirectory" /\ ~last.err
    /\ last.errors > 0
    /\ \E n \in 1..Len(last.files) :
          /\ CountryOfName(last.files[n]).code = ""
          /\ \E m \in (n + 1)..Len(last.files) :
                \E x \in DOMAIN ip_ranges : ip_ranges[x] = last.files[m][1]
    /\ last.processed > 0

\* The numeric keys in iteration order.
Walk == NumericCursor(DOMAIN ip_ranges_numeric)

\* Positions of the walk whose start is less than the previous start.
Disorder == {n \in 2..Len(Walk) : KeyStart(Walk[n]) < KeyStart(Walk[n - 1])}

\* C18 as stated: the count the audit returns is the number of positions
\* whose start is less than the previous start.
C18_Original == last.op = "verify" => last.processed = Cardinality(Disorder)

\* C18 amended: the count the audit returns is the number of entries it
\* walked; the positions whose start is less than the previous start are
\* counted apart, as the warnings it prints; the audit changes nothing.
C18_AuditCountsEntries ==
    [][last'.op = "verify" =>
          /\ last'.processed = Len(Walk)
          /\ last'.warnings = Cardinality(Disorder)
          /\ UNCHANGED <<ip_ranges, ip_ranges_numeric, Cache>>]_vars

\* An audit over entries of which two share their start.
C18_Witness ==
    /\ last.op = "verify" /\ last.processed >= 2
    /\ \E n \in 2..Len(Walk) : KeyStart(Walk[n]) = KeyStart(Walk[n - 1])

\* C19: the count the audit returns is the number of distinct (start, end)
\* pairs the numeric bucket holds, which are the pairs written so far.
C19_CountIsEntries ==
    last.op = "verify" =>
        last.processed =
            Cardinality({<<KeyStart(k), KeyEnd(k)>> : k \in DOMAIN ip_ranges_numeric})

\* An audit after two texts were written under one pair of bounds.
C19_Witness ==
    /\ last.op = "verify" /\ last.processed >= 1
    /\ \E x, y \in DOMAIN ip_ranges :
          x # y /\ parseIPRange(x).ok /\ parseIPRange(y).ok /\ KeyOfText(x) = KeyOfText(y)
    /\ Cardinality(DOMAIN ip_ranges) > last.processed

\* C20: the numeric keys are walked in non-decreasing order of start, ties
\* in increasing order of end, and an audit finds no disorder.
C20_WalkIsSorted ==
    /\ \A n \in 2..Len(Walk) :
          \/ KeyStart(Walk[n - 1]) < KeyStart(Walk[n])
          \/ /\ KeyStart(Walk[n - 1]) = KeyStart(Walk[n])
             /\ KeyEnd(Walk[n - 1]) < KeyEnd(Walk[n])
    /\ last.op = "verify" => last.warnings = 0

\* An audit over a tie of starts, an inverted entry and upserted bounds no
\* text gives.
C20_Witness ==
    /\ last.op = "verify" /\ last.warnings = 0
    /\ \E n \in 2..Len(Walk) : KeyStart(Walk[n]) = KeyStart(Walk[n - 1])
    /\ \E k \in DOMAIN ip_ranges_numeric : KeyStart(k) > KeyEnd(k)
    /\ Len(Walk) >= 3

\* Numeric lexicographic order on the bounds of two ranges.
PairLess(s1, e1, s2, e2) == s1 < s2 \/ (s1 = s2 /\ e1 < e2)

\* C21: the 8-byte key of (s1, e1) is below the key of (s2, e2) in byte
\* order exactly when (s1, e1) is below (s2, e2) in numeric lexicographic
\* order, and two ranges have the same key only when they are the same.
C21_KeyOrder ==
    last.op = "compare" =>
        /\ Len(last.key) = KeyLen /\ Len(last.out) = KeyLen
        /\ last.less <=> PairLess(last.arg[1], last.arg[2], last.arg[3], last.arg[4])
        /\ (last.key = last.out) <=> (last.arg[1] = last.arg[3] /\ last.arg[2] = last.arg[4])

\* Two ranges with the same start whose ends differ in different bytes.
C21_Witness ==
    /\ last.op = "compare" /\ last.less
    /\ last.arg[1] = last.arg[3] /\ last.arg[2] = 1 /\ last.arg[4] = ByteBase

\* C22: decoding the four bytes encodeUint32BE wrote gives the word back,
\* encoding the word decodeUint32BE read gives the four bytes back, and
\* both always produce a result (four bytes below the byte base, a word
\* below the word modulus).
C22_RoundTrip ==
    /\ last.op = "encode" =>
          /\ last.start = last.arg[1]
          /\ last.key \in ByteStrings
    /\ last.op = "decode" =>
          /\ last.out = last.key
          /\ last.start \in 0..MaxWord

\* A word with a bit in its highest byte has been encoded, or four bytes
\* with a non-zero first and last byte have been decoded.
C22_Witness ==
    \/ last.op = "encode" /\ last.arg[1] >= ByteBase ^ 3 /\ last.arg[1] % ByteBase # 0
    \/ last.op = "decode" /\ last.key[1] # 0 /\ last.key[4] # 0

\* The text is an IPv4 CIDR: a dotted address, "/", a prefix length of at
\* most the address width.
IsV4Cidr(x) ==
    /\ Len(x) = 3 /\ x[1].t = "ip4" /\ x[2] = Slash
    /\ x[3].t = "num" /\ x[3].v <= WordBits

\* C23: for an IPv4 CIDR a/p with p from 0 to the address width,
\* parseIPRange succeeds with start = a with its low (width - p) bits
\* cleared and end = start + 2^(width - p) - 1 inside the word, so
\* start <= end; the full-width prefix gives start = end = a and /0 gives
\* (0, largest word).
C23_CidrBounds ==
    (last.op = "parse" /\ IsV4Cidr(last.arg)) =>
        LET a == last.arg[1].v
            p == last.arg[3].v
            size == 2 ^ (WordBits - p)
        IN  /\ last.ok /\ ~last.err
            /\ last.start = a - (a % size)
            /\ last.start % size = 0
            /\ last.end = last.start + size - 1
            /\ last.start <= last.end /\ last.end <= MaxWord
            /\ (p = WordBits => last.start = a /\ last.end = a)
            /\ (p = 0 => last.start = 0 /\ last.end = MaxWord)

\* A /0 network written with a non-zero address has been parsed.
C23_Witness ==
    /\ last.op = "parse" /\ IsV4Cidr(last.arg)
    /\ last.arg[3].v = 0 /\ last.arg[1].v = MaxWord - 1
    /\ last.ok /\ last.start = 0 /\ last.end = MaxWord

\* The text is "A-B" with A and B dotted IPv4 addresses, spaces around
\* either allowed.
IsV4Pair(x) ==
    /\ ~StrContains(x, Slash)
    /\ Len(StrSplit(x, Dash)) = 2
    /\ \A i \in 1..2 :
          LET part == TrimSpace(StrSplit(x, Dash)[i])
          IN  Len(part) = 1 /\ part[1].t = "ip4"

\* C24 as stated: parseIPRange fails, returning no bounds, on every text
\* that is neither an IPv4 CIDR nor an "A-B" pair of dotted IPv4 addresses.
C24_Original ==
    (last.op = "parse" /\ ~IsV4Cidr(last.arg) /\ ~IsV4Pair(last.arg)) =>
        ~last.ok /\ last.err /\ last.start = 0 /\ last.end = 0

\* C25 as stated: after any imports, every key of the numeric bucket
\* decodes to bounds with start <= end.
C25_Original ==
    \A k \in DOMAIN ip_ranges_numeric : KeyStart(k) <= KeyEnd(k)

\* C26 as stated: for every text parseIPRange accepts and every dotted
\* IPv4 address, ipv4InRange answers true exactly when the address lies
\* between the parsed bounds, both included.
C26_Original ==
    (last.op = "contains" /\ parseIPRange(last.arg).ok) =>
        (last.ok <=> /\ parseIPRange(last.arg).start <= last.out[1].v
                     /\ last.out[1].v <= parseIPRange(last.arg).end)

\* C27: a listing for a country returns, without error, the keys of the
\* textual bucket whose stored value is that country, each once and in
\* cursor order (the empty sequence when there is none); it is computed
\* from the bucket as it is now, whatever the cache holds, and the step
\* changes neither the buckets nor the cache.
C27_ListRanges ==
    [][last'.op = "list" =>
          /\ UNCHANGED <<ip_ranges, ip_ranges_numeric, Cache>>
          /\ last'.ok /\ ~last'.err
          /\ {last'.out[i] : i \in DOMAIN last'.out}
                = {k \in DOMAIN ip_ranges : ip_ranges[k] = last'.country}
          /\ \A i \in DOMAIN last'.out, j \in DOMAIN last'.out :
                i < j => TextLess(last'.out[i], last'.out[j])]_vars

\* A listing that holds a range a cached query lies in, for the country
\* the store gives that query now, while the cache still gives another.
C27_Witness ==
    /\ last.op = "list" /\ last.out # <<>>
    /\ \E q \in DOMAIN Cache.cache :
          /\ Cache.cache[q] # last.country
          /\ Cache.cache[q] \notin {ip_ranges[k] : k \in DOMAIN ip_ranges}
          /\ lookupCountryByIP(newIPCache(1), ip_ranges, ip_ranges_numeric, q).country
                = last.country
          /\ \E i \in DOMAIN last.out : ipv4InRange(q, last.out[i])

\* A listing for a country no entry holds, over a store that has entries.
C27_WitnessEmpty ==
    last.op = "list" /\ last.out = <<>> /\ ip_ranges # EmptyBucket

\* Goroutine p is inside getCountry, holding the read lock.
InGet(p) == procs[p].pc \in {"read", "runlock"}

\* Goroutine p is inside putCountry, holding the write lock.
InPut(p) == procs[p].pc \in {"reset", "insert", "unlock"}

\* C28: while a goroutine is inside putCountry (reset and insert) no other
\* goroutine is inside putCountry or getCountry; the mutex is held for
\* reading by exactly the goroutines inside getCountry, which may be
\* several; and what a lookup has read is what the cache holds as long as
\* it holds the read lock, so it never sees a cache between its reset and
\* the insert that follows.
C28_CacheExclusion ==
    /\ \A p \in Procs :
          InPut(p) => /\ mutex.writer = p
                      /\ \A q \in Procs \ {p} : ~InPut(q) /\ ~InGet(q)
    /\ mutex.readers = {p \in Procs : InGet(p)}
    /\ mutex.writer # "none" => mutex.readers = {} /\ InPut(mutex.writer)
    /\ \A p \in Procs :
          procs[p].pc = "runlock" =>
              /\ (procs[p].via = "cache") <=> (procs[p].ip \in DOMAIN Cache.cache)
              /\ procs[p].via = "cache" => procs[p].country = Cache.cache[procs[p].ip]

\* A goroutine is between the reset of a cache that held an entry and its
\* own insert, while another waits for the read lock.
C28_Witness ==
    /\ last.op = "resolve" /\ last.via = "numeric"
    /\ Cache.cache = EmptyBucket
    /\ \E p \in Procs, q \in Procs :
          procs[p].pc = "insert" /\ procs[q].pc = "rlock"

\* Two goroutines are inside getCountry at the same time.
C28_WitnessShared ==
    \E p \in Procs : \E q \in Procs \ {p} : InGet(p) /\ InGet(q)

\* Goroutine w is inside a write transaction.
InTx(w) == procs[w].pc \in {"text", "numeric", "commit"}

\* C29: the committed buckets, and the buckets every read transaction of
\* a lookup works on, are always the buckets as they were at the end of
\* some write call (all of its writes to both buckets, or none): a
\* textual entry never shows without its numeric entry, so no lookup is
\* served by the textual fallback; and at most one goroutine is inside a
\* write transaction, the one holding the writer lock.
C29_SnapshotIsolation ==
    /\ Store \in bolt.history
    /\ \A r \in Procs :
          procs[r].pc = "scan" =>
              /\ procs[r].snap \in bolt.history
              /\ \A x \in DOMAIN procs[r].snap.ip_ranges :
                    /\ KeyOfText(x) \in DOMAIN procs[r].snap.ip_ranges_numeric
                    /\ procs[r].snap.ip_ranges_numeric[KeyOfText(x)]
                          = procs[r].snap.ip_ranges[x]
    /\ \A r \in Readers : procs[r].via # "textual"
    /\ \A w \in Procs : InTx(w) <=> (bolt.rwlock = w)

\* A lookup is scanning buckets older than the committed ones (a write
\* call has committed since its transaction began) while a goroutine has
\* written the textual bucket of its transaction and not yet the numeric
\* one.
C29_Witness ==
    /\ \E r \in Readers : procs[r].pc = "scan" /\ procs[r].snap # Store
    /\ \E w \in Writers :
          procs[w].pc = "numeric" /\ procs[w].dirty.ip_ranges # ip_ranges

\* A goroutine waits for the writer lock while another is inside its
\* write transaction.
C29_WitnessBlocked ==
    \E w \in Writers : \E v \in Writers \ {w} :
        InTx(w) /\ procs[v].pc = "begin"

\* C30: a database opened read-write has the three buckets; opening and
\* closing never change an entry of ip_ranges or ip_ranges_numeric and
\* never remove a bucket, so a file closed and opened again holds what it
\* held; and ip_prefix_index is empty in every state, whatever has been
\* written.
C30_OpenKeepsEntries ==
    /\ [](/\ bolt.open = "rw" => bolt.buckets = BucketNames
          /\ (last.op = "open" /\ last.ok /\ last.via = "rw") => bolt.open = "rw"
          /\ bolt.ip_prefix_index = EmptyBucket)
    /\ [][last'.op \in {"open", "close"} =>
             /\ UNCHANGED <<ip_ranges, ip_ranges_numeric>>
             /\ bolt.buckets \subseteq bolt'.buckets]_vars

\* A file that holds entries has just been opened read-write again.
C30_Witness ==
    /\ last.op = "open" /\ last.ok /\ bolt.open = "rw"
    /\ ip_ranges # EmptyBucket /\ ip_ranges_numeric # EmptyBucket
    /\ bolt.buckets = BucketNames

\* The file of Files with the given name.
FileNamed(name) == CHOOSE f \in Files \cup ImportFiles : f.name = name

\* The keys a step has added to a bucket or given another value.
Changed(old, new) == {k \in DOMAIN new : k \notin DOMAIN old \/ old[k] # new[k]}

\* The country codes a step may have written: that of the upsert, that
\* of the imported file, those of the files of the imported directory.
WrittenCodes(call) ==
    IF call.op = "upsert" THEN {call.country}
    ELSE IF call.op = "importFile" THEN {call.arg[1]}
    ELSE IF call.op = "importDirectory"
    THEN {call.files[i][1] : i \in DOMAIN call.files}
    ELSE {}

\* C31: no step removes a key from either bucket; a key gets a new value
\* only in an upsert or import, and the value is the country that step
\* writes; a committed upsert leaves its country under its range text and
\* under its numeric key, whatever was there, and a step that commits
\* nothing leaves both buckets as they were.
C31_NeverDeleted ==
    [][/\ DOMAIN ip_ranges \subseteq DOMAIN ip_ranges'
       /\ DOMAIN ip_ranges_numeric \subseteq DOMAIN ip_ranges_numeric'
       /\ \A k \in Changed(ip_ranges, ip_ranges') :
             ip_ranges'[k] \in WrittenCodes(last')
       /\ \A k \in Changed(ip_ranges_numeric, ip_ranges_numeric') :
             ip_ranges_numeric'[k] \in WrittenCodes(last')
       /\ (last'.op = "upsert" /\ last'.failed = 0) =>
             /\ ip_ranges' = Put(ip_ranges, last'.arg, last'.country)
             /\ ip_ranges_numeric' = Put(ip_ranges_numeric, last'.key, last'.country)
       /\ (last'.op = "upsert" /\ last'.failed # 0) =>
             UNCHANGED <<ip_ranges, ip_ranges_numeric>>
       /\ (last'.op = "importFile" /\ last'.failed = 0 /\ last'.ok) =>
             \A k \in DOMAIN ip_ranges' :
                 (\E i \in DOMAIN FileNamed(last'.arg).lines :
                     /\ TrimSpace(FileNamed(last'.arg).lines[i]) = k
                     /\ ~isPrivateOrLocalCIDR(k))
                 => ip_ranges'[k] = last'.arg[1]]_vars

\* An import of DE.zone has overwritten, under the numeric key of the
\* bounds 0..3, the country an earlier upsert of another text with those
\* bounds had stored, and that text still holds the upsert's country.
C31_Witness ==
    /\ last.op = "importFile" /\ last.arg = FileDE.name /\ last.failed = 0
    /\ RangeA \in DOMAIN ip_ranges /\ ip_ranges[RangeA] = "FR"
    /\ CidrA \in DOMAIN ip_ranges /\ ip_ranges[CidrA] = "DE"
    /\ DOMAIN ip_ranges_numeric \cap {NumericKey(7, 7)} = {}
    /\ ip_ranges_numeric[NumericKey(0, 3)] = "DE"

\* An upsert has given a range text that an import had stored under one
\* country the other country.
C31_WitnessOverwrite ==
    /\ last.op = "upsert" /\ last.failed = 0 /\ last.arg = RangeA
    /\ RangeB \in DOMAIN ip_ranges
    /\ ip_ranges[RangeA] # ip_ranges[RangeB]

\* No non-empty country code precedes a first "." in the file name.
NoCountryCode(name) ==
    \/ \A i \in 1..Len(name) : name[i] # "."
    \/ name[1] = "."

\* C32 as stated: an import of a file whose name gives no country code
\* returns an error, does not panic, counts nothing and leaves both
\* buckets as they were.
C32_Original ==
    [][(last'.op = "importFile" /\ NoCountryCode(last'.arg)) =>
          /\ last'.err /\ ~last'.panic
          /\ last'.processed = 0 /\ last'.updated = 0
          /\ UNCHANGED <<ip_ranges, ip_ranges_numeric>>]_vars

\* The trimmed lines of a file that reach a batch, in file order.
BatchedTexts(file) ==
    SelectSeq([i \in 1..Len(file.lines) |-> TrimSpace(file.lines[i])],
              LAMBDA t : /\ ~IsCommentOrBlank(t)
                         /\ ~isPrivateOrLocalCIDR(t)
                         /\ parseIPRange(t).ok)

\* The batches an import cuts a sequence of texts into: a batch is closed
\* as soon as it holds size distinct texts, and what remains at the end of
\* the file is the last batch.
RECURSIVE BatchesOf(_, _, _, _)
BatchesOf(texts, cur, done, size) ==
    IF texts = <<>>
    THEN IF cur = {} THEN done ELSE Append(done, cur)
    ELSE IF Cardinality(cur \cup {Head(texts)}) >= size
         THEN BatchesOf(Tail(texts), {}, Append(done, cur \cup {Head(texts)}), size)
         ELSE BatchesOf(Tail(texts), cur \cup {Head(texts)}, done, size)

\* The texts of the batches of the last import whose transaction committed.
CommittedTexts(file, faults) ==
    LET bs == BatchesOf(BatchedTexts(file), {}, <<>>, batchSize)
    IN  UNION {bs[j] : j \in {i \in 1..Len(bs) : FaultAt(faults, i) = "none"}}

FailedBatches(file, faults) ==
    LET bs == BatchesOf(BatchedTexts(file), {}, <<>>, batchSize)
    IN  {j \in 1..Len(bs) : FaultAt(faults, j) # "none"}

\* C33: each batch of an import is written whole or not at all, whatever
\* happens to the other batches: after importFile both buckets are the
\* buckets before the call overwritten with the entries of exactly the
\* batches whose transaction committed (earlier or later than a failed
\* one), and a failed batch leaves no entry of its own.
C33_BatchesAtomic ==
    [][last'.op = "importFile" =>
          LET file == FileOf(last'.arg)
              code == file.name[1]
              texts == CommittedTexts(file, last'.faults)
              keys == {KeyOfText(x) : x \in texts}
          IN  /\ last'.failed = Cardinality(FailedBatches(file, last'.faults))
              /\ ip_ranges' = [x \in DOMAIN ip_ranges \cup texts |->
                                  IF x \in texts THEN code ELSE ip_ranges[x]]
              /\ ip_ranges_numeric' = [k \in DOMAIN ip_ranges_numeric \cup keys |->
                                  IF k \in keys THEN code ELSE ip_ranges_numeric[k]]]_vars

\* An import whose first batch failed at commit and whose following batch
\* was written: the first batch left nothing, the later one is stored.
C33_Witness ==
    /\ last.op = "importFile" /\ last.arg = FileFR.name
    /\ last.faults = <<"commit">> /\ last.failed = 1
    /\ RangeA \notin DOMAIN ip_ranges /\ RangeB \notin DOMAIN ip_ranges
    /\ KeyOfText(RangeB) \notin DOMAIN ip_ranges_numeric
    /\ Spaced \in DOMAIN ip_ranges /\ ip_ranges[Spaced] = "FR"
    /\ KeyOfText(Spaced) \in DOMAIN ip_ranges_numeric

\* An import whose second batch failed: the first batch stays stored.
C33_WitnessEarlier ==
    /\ last.op = "importFile" /\ last.arg = FileFR.name
    /\ last.faults = <<"none", "begin">> /\ last.failed = 1
    /\ RangeA \in DOMAIN ip_ranges /\ RangeB \in DOMAIN ip_ranges
    /\ KeyOfText(RangeB) \in DOMAIN ip_ranges_numeric
    /\ Spaced \notin DOMAIN ip_ranges
    /\ KeyOfText(Spaced) \notin DOMAIN ip_ranges_numeric

\* The numeric entries whose start does not exceed the target.
StartsUpTo(t) == {k \in DOMAIN ip_ranges_numeric : BoundsOfKey(k).start <= t}

\* C34: a numeric scan for target t ends after at most
\* (number of entries with start <= t) + 1 entries, and every entry it
\* examines before its last one has start <= t, so nothing behind the
\* first entry whose start exceeds t is examined.
C34_ScanBounded ==
    last.op = "scan" =>
        LET t == last.arg[1]
            cur == NumericCursor(DOMAIN ip_ranges_numeric)
        IN  /\ last.processed <= Cardinality(StartsUpTo(t)) + 1
            /\ last.processed <= Len(cur)
            /\ \A i \in 1..(last.processed - 1) : BoundsOfKey(cur[i]).start <= t
            /\ \A i \in 1..Len(cur) :
                  (\E j \in 1..(i - 1) : BoundsOfKey(cur[j]).start > t) =>
                      i > last.processed

\* A scan without match that passed every entry starting at or below the
\* target, stopped at the first entry starting above it, and left entries
\* behind that one unexamined.
C34_Witness ==
    /\ last.op = "scan" /\ ~last.ok
    /\ last.processed >= 2
    /\ last.processed = Cardinality(StartsUpTo(last.arg[1])) + 1
    /\ last.processed < Cardinality(DOMAIN ip_ranges_numeric)

\* The worst case: the target exceeds every stored start without matching,
\* and the scan examines the whole bucket.
C34_WitnessWorstCase ==
    /\ last.op = "scan" /\ ~last.ok
    /\ Cardinality(DOMAIN ip_ranges_numeric) >= 2
    /\ last.processed = Cardinality(DOMAIN ip_ranges_numeric)
    /\ StartsUpTo(last.arg[1]) = DOMAIN ip_ranges_numeric

\* C35 as stated: in every reachable state currentSize is the number of
\* entries in the cache map.
C35_Original == Cache.currentSize = Cardinality(DOMAIN Cache.cache)

\* The batch map and the numeric batch holding every line of a sequence
\* of trimmed, parsed texts.
RECURSIVE BatchOfAll(_, _)
BatchOfAll(texts, code) ==
    IF texts = <<>> THEN EmptyBucket
    ELSE Put(BatchOfAll(SubSeq(texts, 1, Len(texts) - 1), code),
             texts[Len(texts)], code)

NumericBatchOfAll(texts, code) ==
    [i \in 1..Len(texts) |-> [Start |-> parseIPRange(texts[i]).start,
                              End |-> parseIPRange(texts[i]).end,
                              Country |-> code]]

\* What one single batch holding all parsed lines of the file writes.
SingleBatch(db, file) ==
    LET texts == BatchedTexts(file)
        code == file.name[1]
    IN  IF texts = <<>> THEN [db |-> db, updated |-> 0, err |-> FALSE]
        ELSE writeBatch(db, BatchOfAll(texts, code),
                        NumericBatchOfAll(texts, code), "none")

\* C36: whatever the batch size, an import without write fault leaves both
\* buckets as one single batch of all parsed lines leaves them, returns
\* that batch's updated count, and counts every counted line as processed.
C36_BatchSizeIndependent ==
    [][last'.op = "importFileSized" =>
          LET file == [name |-> last'.arg, lines |-> last'.lines]
              one == SingleBatch(Store, file)
          IN  /\ ip_ranges' = one.db.ip_ranges
              /\ ip_ranges_numeric' = one.db.ip_ranges_numeric
              /\ last'.updated = one.updated
              /\ last'.processed = Cardinality(CountedLines(file))
              /\ ~last'.err /\ last'.failed = 0]_vars

\* An import of a file with a duplicate line whose parsed lines fill the
\* batch a whole number of times, so that the last line closes a batch.
C36_Witness ==
    /\ last.op = "importFileSized" /\ last.size = batchSize
    /\ Len(BatchedTexts([name |-> last.arg, lines |-> last.lines])) = Len(last.lines)
    /\ Len(last.lines) = MaxLines
    /\ \E i \in 1..Len(last.lines) : \E j \in 1..Len(last.lines) :
          i # j /\ last.lines[i] = last.lines[j]
    /\ last.updated >= 2

\* An import with fewer parsed lines than the batch size.
C36_WitnessShort ==
    /\ last.op = "importFileSized" /\ last.size = batchSize + 1
    /\ Len(BatchedTexts([name |-> last.arg, lines |-> last.lines])) = 1
    /\ last.updated = 1

\* An import writing one line per batch.
C36_WitnessUnit ==
    /\ last.op = "importFileSized" /\ last.size = 1
    /\ Len(BatchedTexts([name |-> last.arg, lines |-> last.lines])) = MaxLines
    /\ last.updated = 3

\* Addresses as query strings, plain and IPv4-mapped: every address up to
\* one past the highest bound a stored text names, and the two highest
\* addresses there are.
ProbeWords == (0..8) \cup {MaxWord - 1, MaxWord}
AddressTexts == {<<Ip4(a)>> : a \in ProbeWords} \cup {<<Ip4in6(a)>> : a \in ProbeWords}

\* C37: in a store whose writes all took their bounds from parseIPRange,
\* an address the numeric scan finds no entry for is contained in no
\* textual entry, no lookup is answered by the textual loop, and a lookup
\* that reads the store returns what the numeric scan returns.
C37_FallbackNeverAnswers ==
    /\ \A q \in AddressTexts :
          ~lookupCountryByIPNumeric(ip_ranges_numeric,
                                    ipv4ToUint32(To4(ParseIP(q)))).found =>
              \A x \in DOMAIN ip_ranges : ~ipv4InRange(q, x)
    /\ last.op = "resolve" =>
          /\ last.via # "textual"
          /\ last.via # "cache" /\ To4(ParseIP(last.arg)) # NoIP =>
                LET n == lookupCountryByIPNumeric(ip_ranges_numeric,
                                                  ipv4ToUint32(To4(ParseIP(last.arg))))
                IN  /\ last.ok = n.found
                    /\ n.found => last.country = n.country

\* A lookup whose numeric scan missed and whose textual loop then went
\* over stored texts, IPv4 ones included, without finding one.
C37_Witness ==
    /\ last.op = "resolve" /\ ~last.ok
    /\ To4(ParseIP(last.arg)) # NoIP
    /\ \E x \in DOMAIN ip_ranges : x \in UpsertTexts
    /\ \E x \in DOMAIN ip_ranges : x \notin UpsertTexts
    /\ ~lookupCountryByIPNumeric(ip_ranges_numeric,
                                 ipv4ToUint32(To4(ParseIP(last.arg)))).found

\* The directory of TotalsDirectories with the given path.
TotalsDirOf(path) == CHOOSE d \in TotalsDirectories : d.path = path

\* The sums of the processed and updated counts of the files of dir, from
\* position i on, whose import wrote to the store or returned no error,
\* the imports running one after the other from db.
RECURSIVE WrittenTotals(_, _, _, _)
WrittenTotals(db, dir, i, faultsOf) ==
    IF i > Len(dir.files) THEN [processed |-> 0, updated |-> 0]
    ELSE IF \/ ~MatchesZone(dir.files[i].name)
            \/ ContainsReserved(dir.path \o <<"/">> \o dir.files[i].name)
    THEN WrittenTotals(db, dir, i + 1, faultsOf)
    ELSE CHOOSE out \in UNION
             {{[processed |-> rest.processed
                    + (IF r.db # db \/ ~r.err THEN r.processed ELSE 0),
                updated |-> rest.updated
                    + (IF r.db # db \/ ~r.err THEN r.updated ELSE 0)] :
                   rest \in {WrittenTotals(r.db, dir, i + 1, faultsOf)}} :
                  r \in {importZoneFile(db, dir.files[i], faultsOf[i],
                                        i \in dir.unreadable)}} : TRUE

\* C38 as stated: the totals importDirectory returns are the sums of the
\* processed and updated counts of every file whose import wrote an entry
\* (or ended without error), a file whose import ended with an error after
\* it had written included.
C38_Original ==
    [][last'.op = "importDirectory" =>
          LET t == WrittenTotals(Store, TotalsDirOf(last'.arg), 1, last'.faults)
          IN  /\ last'.processed = t.processed
              /\ last'.updated = t.updated]_vars

====
